---- MODULE Spec2Model ----
(***************************************************************************)
(* A model of libmbtiles: the TMS/XYZ row transform, the tile bounds, the  *)
(* format-token normalisation, the metadata table, the tile iterator, the  *)
(* path patterns, extract, RGBAImage and the zoom-level resizing of        *)
(* src/src/lib/mbtiles.cpp, the tile handler of                            *)
(* src/src/lib/mbtiles_viewer.cpp, the threads of                          *)
(* src/src/lib/tile_downloader.cpp, the archive schema and processTiles of *)
(* src/src/sources/mbtiles_creator.cpp, and the loop of                    *)
(* src/src/sources/decrease_zoom.cpp.  downsample_level, upsample_level    *)
(* and resize_zoom_levels stand in mbtiles.cpp as commented-out code and   *)
(* are modelled from that text.                                            *)
(***************************************************************************)
EXTENDS Integers, Sequences, FiniteSets, TLC

VARIABLES coord, norm, store, iter, pat, xtr, samp, rsz, img, view, crt, dl

vars == <<coord, norm, store, iter, pat, xtr, samp, rsz, img, view, crt, dl>>

(***************************************************************************)
(* 64-bit two's-complement integers (long long).  TLC's integers are 32    *)
(* bits wide, so a long long is four 16-bit limbs, least significant       *)
(* first; int values are ordinary integers in INT_MIN..INT_MAX.            *)
(***************************************************************************)
LimbBase == 65536

LimbTop == 65535

LimbSign == 32768

INT_MAX == 2147483647

LLZero == <<0, 0, 0, 0>>

LLOne == <<1, 0, 0, 0>>

\* static_cast<long long>(v) for an int v: sign extension.
LLFromInt(v) ==
    IF v >= 0
    THEN <<v % LimbBase, v \div LimbBase, 0, 0>>
    ELSE LET m == -(v + 1)
         IN  <<LimbTop - (m % LimbBase), LimbTop - (m \div LimbBase), LimbTop, LimbTop>>

\* a - b on long long, wrapping modulo 2^64 (what two's-complement hardware yields).
LLSub(a, b) ==
    LET d1 == a[1] - b[1]
        w1 == IF d1 < 0 THEN 1 ELSE 0
        d2 == a[2] - b[2] - w1
        w2 == IF d2 < 0 THEN 1 ELSE 0
        d3 == a[3] - b[3] - w2
        w3 == IF d3 < 0 THEN 1 ELSE 0
        d4 == a[4] - b[4] - w3
    IN  <<d1 % LimbBase, d2 % LimbBase, d3 % LimbBase, d4 % LimbBase>>

\* 1LL << k for a shift count 0 <= k <= 63.
LLShl1(k) == [i \in 1..4 |-> IF i = (k \div 16) + 1 THEN 2 ^ (k % 16) ELSE 0]

LLIsNeg(a) == a[4] >= LimbSign

\* a > std::numeric_limits<int>::max()
LLGtIntMax(a) == ~LLIsNeg(a) /\ (a[4] # 0 \/ a[3] # 0 \/ a[2] >= LimbSign)

\* a < std::numeric_limits<int>::min()
LLLtIntMin(a) == LLIsNeg(a) /\ ~(a[4] = LimbTop /\ a[3] = LimbTop /\ a[2] >= LimbSign)

\* static_cast<int>(a) for a long long within the int range.
LLToInt(a) ==
    IF LLIsNeg(a)
    THEN -((LimbTop - a[2]) * LimbBase + (LimbTop - a[1])) - 1
    ELSE a[2] * LimbBase + a[1]

(***************************************************************************)
(* 1LL << z.  For 0 <= z <= 63 the result is defined (z = 63 gives the     *)
(* sign bit).  A shift count outside 0..63 is undefined behaviour: builds  *)
(* either mask the count to its low six bits or produce zero.              *)
(***************************************************************************)
ShiftOne(z) ==
    IF z \in 0..63 THEN {LLShl1(z)} ELSE {LLShl1(z % 64), LLZero}

Thrown == [throws |-> TRUE, value |-> 0]

Returned(v) == [throws |-> FALSE, value |-> v]

\* The range check and the cast shared by both row transforms.
RowResult(value) ==
    IF LLIsNeg(value) \/ LLGtIntMax(value) THEN Thrown ELSE Returned(LLToInt(value))

\* A row transform that computes (1 << z) - row, one too many.
tms_to_xyz_y_OffByOne(tms_y, z) ==
    {RowResult(LLSub(s, LLFromInt(tms_y))) : s \in ShiftOne(z)}

\* The outcomes of tms_to_xyz_y(tms_y, z): one per outcome of the shift.
tms_to_xyz_y(tms_y, z) ==
    {RowResult(LLSub(LLSub(s, LLOne), LLFromInt(tms_y))) : s \in ShiftOne(z)}

\* The outcomes of xyz_to_tms_y(xyz_y, z).
xyz_to_tms_y(xyz_y, z) ==
    {LET max_value == LLSub(s, LLOne)
         result == LLSub(max_value, LLFromInt(xyz_y))
     IN  RowResult(result) : s \in ShiftOne(z)}

(***************************************************************************)
(* Tile bounds.  A longitude or latitude is kept in micro-degrees.         *)
(***************************************************************************)
\* atan(sinh(pi * (1 - 2k/16))) in micro-degrees, k = 0..16: the latitude of
\* the row edge y of zoom z is entry y * 16 / 2^z.
MercatorLat ==
    <<85051129, 82676285, 79171335, 74019543, 66513260, 55776573, 40979898,
      21943046, 0, -21943046, -40979898, -55776573, -66513260, -74019543,
      -79171335, -82676285, -85051129>>

MercatorSteps == 16

\* tile2latlon(const TileInfo&): the north-west corner (lat, lon) of a tile.
tile2latlonOfTile(tile) ==
    LET n == 2 ^ tile.zoom
        lon_deg == tile.x * (360000000 \div n) - 180000000
        lat_deg == MercatorLat[(tile.y * (MercatorSteps \div n)) + 1]
    IN  <<lat_deg, lon_deg>>

\* tile2latlon(int z, int x, int y): fills a TileInfo and converts it.  The
\* second assignment stores y into tile.x again, so tile.y keeps its default 0.
tile2latlon(z, x, y) ==
    LET tile0 == [zoom |-> 0, x |-> 0, y |-> 0]
        tile1 == [tile0 EXCEPT !.zoom = z]
        tile2 == [tile1 EXCEPT !.x = x]
        tile3 == [tile2 EXCEPT !.x = y]
    IN  tile2latlonOfTile(tile3)

latMin(t) == tile2latlon(t.zoom, t.x, t.y + 1)[1]

latMax(t) == tile2latlon(t.zoom, t.x, t.y)[1]

lonMin(t) == tile2latlon(t.zoom, t.x, t.y)[2]

lonMax(t) == tile2latlon(t.zoom, t.x + 1, t.y)[2]

(***************************************************************************)
(* Extension tokens.  A string is a sequence of one-character strings.     *)
(***************************************************************************)
UpperChars ==
    <<"A", "B", "C", "D", "E", "F", "G", "H", "I", "J", "K", "L", "M",
      "N", "O", "P", "Q", "R", "S", "T", "U", "V", "W", "X", "Y", "Z">>

LowerChars ==
    <<"a", "b", "c", "d", "e", "f", "g", "h", "i", "j", "k", "l", "m",
      "n", "o", "p", "q", "r", "s", "t", "u", "v", "w", "x", "y", "z">>

\* std::isspace in the "C" locale.
IsSpace(ch) == ch \in {" ", "\t", "\n", "\r", "\f"}

\* std::tolower in the "C" locale.
ToLower(ch) ==
    IF \E i \in 1..Len(UpperChars) : UpperChars[i] = ch
    THEN LowerChars[CHOOSE i \in 1..Len(UpperChars) : UpperChars[i] = ch]
    ELSE ch

LowerCased(value) == [i \in 1..Len(value) |-> ToLower(value[i])]

\* value.erase(begin, find_if(begin, end, is_not_space))
EraseLeadingSpace(value) ==
    LET nonspace == {i \in 1..Len(value) : ~IsSpace(value[i])}
    IN  IF nonspace = {} THEN <<>>
        ELSE SubSeq(value, CHOOSE i \in nonspace : \A j \in nonspace : i <= j, Len(value))

\* value.erase(find_if(rbegin, rend, is_not_space).base(), end)
EraseTrailingSpace(value) ==
    LET nonspace == {i \in 1..Len(value) : ~IsSpace(value[i])}
    IN  IF nonspace = {} THEN <<>>
        ELSE SubSeq(value, 1, CHOOSE i \in nonspace : \A j \in nonspace : i >= j)

\* if (!value.empty() && value.front() == '.') value.erase(value.begin())
EraseFrontDot(value) ==
    IF value # <<>> /\ Head(value) = "." THEN Tail(value) ELSE value

normalize_extension_token(value) ==
    LET trimmed == EraseTrailingSpace(EraseLeadingSpace(value))
        dotless == EraseFrontDot(trimmed)
        lowered == IF dotless = <<>> THEN <<>> ELSE LowerCased(dotless)
    IN  IF lowered = <<"j", "p", "e", "g">> THEN <<"j", "p", "g">> ELSE lowered

(***************************************************************************)
(* The metadata table.  A table is the sequence of its rows in rowid       *)
(* order; schema says whether the archive has a metadata table and whether *)
(* name is its PRIMARY KEY.                                                *)
(***************************************************************************)
\* The keys a setMetadata batch may carry, in std::map (sorted) order.
SortedKeys == <<"a", "b", "format", "name">>

TxtPng == <<"p", "n", "g">>

TxtJpg == <<"j", "p", "g">>

TxtPaddedJpeg == <<" ", ".", "J", "P", "E", "G", " ">>

TxtBlank == <<" ">>

\* The rows createMBTilesDB inserts; the description and the numbers it
\* formats are sample values.
CreatorMetadata ==
    <<[name |-> "name", value |-> <<"T", "i", "l", "e", "s">>],
      [name |-> "type", value |-> <<"b", "a", "s", "e", "l", "a", "y", "e", "r">>],
      [name |-> "version", value |-> <<"1", ".", "3">>],
      [name |-> "description", value |-> <<"d">>],
      [name |-> "format", value |-> TxtJpg],
      [name |-> "bounds", value |-> <<"0", ",", "0", ",", "1", ",", "1">>],
      [name |-> "center", value |-> <<"0", ",", "0", ",", "1">>],
      [name |-> "minzoom", value |-> <<"1">>],
      [name |-> "maxzoom", value |-> <<"2">>]>>

HasName(rows, name) == \E j \in 1..Len(rows) : rows[j].name = name

\* The first row of a name in rowid order.
FirstRow(rows, name) ==
    rows[CHOOSE j \in 1..Len(rows) :
             rows[j].name = name /\ \A k \in 1..(j - 1) : rows[k].name # name]

\* sqlite3_prepare_v2 of the insert statement: an ON CONFLICT(name) clause
\* needs a PRIMARY KEY or UNIQUE constraint on name.
PrepareInsert(schema, overwrite_existing) == ~(overwrite_existing /\ schema = "nopk")

\* One sqlite3_step of the insert statement for one entry.
StepInsert(rows, name, value, overwrite_existing, schema) ==
    IF schema = "pk" /\ HasName(rows, name)
    THEN IF overwrite_existing
         THEN [done |-> TRUE,
               rows |-> [j \in 1..Len(rows) |->
                            IF rows[j].name = name THEN [rows[j] EXCEPT !.value = value]
                            ELSE rows[j]]]
         ELSE [done |-> FALSE, rows |-> rows]
    ELSE [done |-> TRUE, rows |-> Append(rows, [name |-> name, value |-> value])]

\* for (const auto &entry : entries): the entries from key i on, in key order,
\* stopping at the first step that is not SQLITE_DONE.
RECURSIVE InsertEntries(_, _, _, _, _)
InsertEntries(rows, entries, overwrite_existing, schema, i) ==
    IF i > Len(SortedKeys) THEN [done |-> TRUE, rows |-> rows]
    ELSE IF SortedKeys[i] \notin DOMAIN entries
    THEN InsertEntries(rows, entries, overwrite_existing, schema, i + 1)
    ELSE LET r == StepInsert(rows, SortedKeys[i], entries[SortedKeys[i]],
                             overwrite_existing, schema)
         IN  IF r.done
             THEN InsertEntries(r.rows, entries, overwrite_existing, schema, i + 1)
             ELSE r

\* MBTiles::setMetadata(entries, overwrite_existing) on an archive with the
\* given schema and rows: whether it throws, and the schema and rows it leaves.
setMetadata(schema, rows, entries, overwrite_existing) ==
    IF DOMAIN entries = {}
    THEN [throws |-> FALSE, schema |-> schema, rows |-> rows]
    ELSE LET created == IF schema = "none" THEN "pk" ELSE schema
         IN  IF ~PrepareInsert(created, overwrite_existing)
             THEN [throws |-> TRUE, schema |-> created, rows |-> rows]
             ELSE LET r == InsertEntries(rows, entries, overwrite_existing, created, 1)
                  IN  IF r.done
                      THEN [throws |-> FALSE, schema |-> created, rows |-> r.rows]
                      ELSE [throws |-> TRUE, schema |-> created, rows |-> rows]

\* MBTiles::setMetadata on a connection whose sqlite3_get_autocommit is the
\* given flag, with the one SQLite call of env failing for a cause outside the
\* schema (a locked or full file).  BEGIN fails inside an open transaction; a
\* failed prepare or step runs ROLLBACK before the throw, a failed COMMIT does
\* not, and the inserted rows stay in the transaction it leaves open.
setMetadataExit(autocommit, schema, rows, entries, overwrite_existing, env) ==
    IF DOMAIN entries = {}
    THEN [throws |-> FALSE, schema |-> schema, rows |-> rows, autocommit |-> autocommit]
    ELSE IF env = "create fails"
    THEN [throws |-> TRUE, schema |-> schema, rows |-> rows, autocommit |-> autocommit]
    ELSE LET r == setMetadata(schema, rows, entries, overwrite_existing)
         IN  IF ~autocommit \/ env = "begin fails"
             THEN [throws |-> TRUE, schema |-> r.schema, rows |-> rows,
                   autocommit |-> autocommit]
             ELSE IF r.throws \/ env = "step fails"
             THEN [throws |-> TRUE, schema |-> r.schema, rows |-> rows,
                   autocommit |-> TRUE]
             ELSE IF env = "commit fails"
             THEN [throws |-> TRUE, schema |-> r.schema, rows |-> r.rows,
                   autocommit |-> FALSE]
             ELSE [throws |-> FALSE, schema |-> r.schema, rows |-> r.rows,
                   autocommit |-> TRUE]

\* MBTiles::metadata(): the map of names to values; emplace keeps the first
\* row of a name.  Without a metadata table the query cannot be prepared.
metadata(schema, rows) ==
    IF schema = "none"
    THEN [throws |-> TRUE, map |-> <<>>]
    ELSE [throws |-> FALSE,
          map |-> [n \in {rows[j].name : j \in 1..Len(rows)} |-> FirstRow(rows, n).value]]

\* The value of SELECT value FROM metadata WHERE name='format' LIMIT 1, or the
\* empty string when the query yields nothing.
FormatValue(schema, rows) ==
    IF schema = "none" \/ ~HasName(rows, "format") THEN <<>>
    ELSE FirstRow(rows, "format").value

read_metadata_format_extension(schema, rows) ==
    normalize_extension_token(FormatValue(schema, rows))

(***************************************************************************)
(* Tile blobs and the extension sniffed from them.                         *)
(***************************************************************************)
PngBlob == <<137, 80, 78, 71, 13, 10, 26, 10>>

ShortPngBlob == <<137, 80, 78, 71>>

JpgBlob == <<255, 216, 255, 224, 0, 16, 74, 70>>

WebpBlob == <<82, 73, 70, 70, 0, 0, 0, 0, 87, 69, 66, 80>>

RiffWaveBlob == <<82, 73, 70, 70, 0, 0, 0, 0, 87, 65, 86, 69>>

detect_extension(bytes) ==
    LET size == Len(bytes)
    IN  IF size <= 0 THEN <<".", "b", "i", "n">>
        ELSE IF size >= 8 /\ bytes[1] = 137 /\ bytes[2] = 80 /\ bytes[3] = 78 /\ bytes[4] = 71
        THEN <<".", "p", "n", "g">>
        ELSE IF size >= 8 /\ bytes[1] = 255 /\ bytes[2] = 216 /\ bytes[3] = 255
        THEN <<".", "j", "p", "g">>
        ELSE IF /\ size >= 8
                /\ size >= 12
                /\ bytes[1] = 82 /\ bytes[2] = 73 /\ bytes[3] = 70 /\ bytes[4] = 70
                /\ bytes[9] = 87 /\ bytes[10] = 69 /\ bytes[11] = 66 /\ bytes[12] = 80
        THEN <<".", "w", "e", "b", "p">>
        ELSE <<".", "b", "i", "n">>

extension_without_dot(ext) == IF ext # <<>> /\ ext[1] = "." THEN Tail(ext) ELSE ext

(***************************************************************************)
(* TileIterator.  The statement SELECT ... FROM tiles is a cursor over the *)
(* rows of the tiles table in rowid order.                                 *)
(***************************************************************************)
NoRow == [zoom_level |-> 0, tile_column |-> 0, tile_row |-> 0, tile_data |-> <<>>]

NoTile ==
    [zoom |-> 0, x |-> 0, y |-> 0, tms_y |-> 0, data |-> <<>>, extension |-> <<>>]

\* sqlite3_step on a statement with pos rows already stepped.
StepFrom(tiles, pos) ==
    IF pos < Len(tiles)
    THEN [rc |-> "ROW", cursor |-> "rows", pos |-> pos + 1, row |-> tiles[pos + 1]]
    ELSE [rc |-> "DONE", cursor |-> "done", pos |-> pos, row |-> NoRow]

\* sqlite3_step on the iterator's statement.  After SQLITE_DONE a further
\* step resets the statement (sqlite3_prepare_v2 statements auto-reset) and
\* runs the query again from its first row.
sqlite3_step(tiles, cursor, pos) ==
    IF cursor = "done" THEN StepFrom(tiles, 0) ELSE StepFrom(tiles, pos)

\* The extension of a tile that always prefers the sniffed extension.
TileExtension_SniffFirst(metadata_ext, blob) ==
    extension_without_dot(detect_extension(blob))

\* The extension next() gives a tile.
TileExtension(metadata_ext, blob) ==
    IF metadata_ext # <<>> THEN metadata_ext
    ELSE extension_without_dot(detect_extension(blob))

\* The part of next() after a row was stepped to: the zoom check, the row
\* conversion and the TileInfo, or a throw.
RowToTile(row, metadata_ext) ==
    LET z == row.zoom_level
        tms_y == row.tile_row
    IN  IF z < 0 \/ z >= 63 THEN [kind |-> "throw", tile |-> NoTile]
        ELSE LET xyz_y_ll == LLSub(LLSub(LLShl1(z), LLOne), LLFromInt(tms_y))
             IN  IF LLLtIntMin(xyz_y_ll) \/ LLGtIntMax(xyz_y_ll)
                 THEN [kind |-> "throw", tile |-> NoTile]
                 ELSE [kind |-> "tile",
                       tile |-> [zoom |-> z, x |-> row.tile_column,
                                 y |-> LLToInt(xyz_y_ll), tms_y |-> tms_y,
                                 data |-> row.tile_data,
                                 extension |-> TileExtension(metadata_ext, row.tile_data)]]

\* TileIterator::TileIterator(db): the fields of a new iterator.
TileIterator(schema, rows) ==
    [started |-> FALSE, cursor |-> "rows", pos |-> 0,
     metadata_ext |-> read_metadata_format_extension(schema, rows)]

\* TileIterator::next(): the iterator fields it leaves, the result, and the
\* row it read (rowRead says whether it read one).
next(it, tilesTable, tiles) ==
    IF ~it.started /\ ~tilesTable
    THEN [it |-> it, kind |-> "throw", tile |-> NoTile, rowRead |-> FALSE, row |-> NoRow]
    ELSE LET st == sqlite3_step(tiles, it.cursor, it.pos)
             after == [it EXCEPT !.started = TRUE, !.cursor = st.cursor, !.pos = st.pos]
         IN  IF st.rc = "DONE"
             THEN [it |-> after, kind |-> "end", tile |-> NoTile, rowRead |-> FALSE,
                   row |-> NoRow]
             ELSE IF st.rc # "ROW"
             THEN [it |-> after, kind |-> "throw", tile |-> NoTile, rowRead |-> FALSE,
                   row |-> NoRow]
             ELSE LET r == RowToTile(st.row, it.metadata_ext)
                  IN  [it |-> after, kind |-> r.kind, tile |-> r.tile, rowRead |-> TRUE,
                       row |-> st.row]

(***************************************************************************)
(* Path patterns.  A pattern, a path and an extension are sequences of     *)
(* one-character strings; an error message is the sequence of its fixed   *)
(* texts and of the characters spliced between them.                       *)
(***************************************************************************)
\* std::to_string with every digit taken in base 8.
to_string_Octal(value) ==
    LET digit == <<"0", "1", "2", "3", "4", "5", "6", "7">>
        RECURSIVE digits(_)
        digits(v) == IF v < 8 THEN <<digit[v + 1]>>
                     ELSE Append(digits(v \div 8), digit[(v % 8) + 1])
    IN  IF value < 0 THEN <<"-">> \o digits(-value) ELSE digits(value)

\* std::to_string of an int or a long long: the decimal digits, most
\* significant first, after a minus sign when the value is negative.
to_string(value) ==
    LET digit == <<"0", "1", "2", "3", "4", "5", "6", "7", "8", "9">>
        RECURSIVE digits(_)
        digits(v) == IF v < 10 THEN <<digit[v + 1]>>
                     ELSE Append(digits(v \div 10), digit[(v % 10) + 1])
    IN  IF value < 0 THEN <<"-">> \o digits(-value) ELSE digits(value)

\* format_decimal of a value kept in micro-degrees: std::fixed with six
\* decimals.
format_decimal(value) ==
    LET magnitude == IF value < 0 THEN -value ELSE value
        fraction == to_string(magnitude % 1000000)
        zeros == [k \in 1..(6 - Len(fraction)) |-> "0"]
    IN  (IF value < 0 THEN <<"-">> ELSE <<>>)
            \o to_string(magnitude \div 1000000) \o <<".">> \o zeros \o fraction

\* leading_digits: the digits of llabs(value), padded with zeros on the left
\* up to count digits, and then the first count characters of that.
leading_digits(value, count) ==
    LET digits == to_string(IF value < 0 THEN -value ELSE value)
        padded == IF Len(digits) < count
                  THEN [k \in 1..(count - Len(digits)) |-> "0"] \o digits
                  ELSE digits
    IN  SubSeq(padded, 1, count)

\* pattern.find('}', from) that reports the end of the pattern when there is
\* no closing brace.
find_closing_OrEnd(pattern, from) ==
    LET later == {k \in from..Len(pattern) : pattern[k] = "}"}
    IN  IF later = {} THEN Len(pattern) + 1
        ELSE CHOOSE k \in later : \A other \in later : k <= other

\* pattern.find('}', from): the first position at or after from that holds
\* a closing brace, 0 (npos) when there is none.  Positions count from 1.
find_closing(pattern, from) ==
    LET later == {k \in from..Len(pattern) : pattern[k] = "}"}
    IN  IF later = {} THEN 0
        ELSE CHOOSE k \in later : \A other \in later : k <= other

\* format_pattern.  lat and lon are in micro-degrees; lat is tabulated for
\* 0 <= z <= 4 and 0 <= y <= 2^z and is only read by {a} and {A..}.
format_pattern(z, x, y, pattern, extension) ==
    LET lon == x * (360000000 \div (2 ^ z)) - 180000000
        lat == MercatorLat[(y * (MercatorSteps \div (2 ^ z))) + 1]
        token_is(token, expected) == Len(token) = 1 /\ token[1] = expected
        token_is_repeat_of(token, expected) ==
            token # <<>> /\ \A k \in 1..Len(token) : token[k] = expected
        leading_digits_from_double(value, count) ==
            leading_digits((IF value < 0 THEN -value ELSE value) \div 1000000, count)
        thrown(message) == [throws |-> TRUE, message |-> message, path |-> <<>>]
        replacement(token) ==
            IF token_is(token, "z") THEN [known |-> TRUE, text |-> to_string(z)]
            ELSE IF token_is(token, "x") THEN [known |-> TRUE, text |-> to_string(x)]
            ELSE IF token_is(token, "y") THEN [known |-> TRUE, text |-> to_string(y)]
            ELSE IF token_is(token, "a") THEN [known |-> TRUE, text |-> format_decimal(lat)]
            ELSE IF token_is(token, "o") THEN [known |-> TRUE, text |-> format_decimal(lon)]
            ELSE IF token_is_repeat_of(token, "Z")
            THEN [known |-> TRUE, text |-> leading_digits(z, Len(token))]
            ELSE IF token_is_repeat_of(token, "X")
            THEN [known |-> TRUE, text |-> leading_digits(x, Len(token))]
            ELSE IF token_is_repeat_of(token, "Y")
            THEN [known |-> TRUE, text |-> leading_digits(y, Len(token))]
            ELSE IF token_is_repeat_of(token, "A")
            THEN [known |-> TRUE, text |-> leading_digits_from_double(lat, Len(token))]
            ELSE IF token_is_repeat_of(token, "O")
            THEN [known |-> TRUE, text |-> leading_digits_from_double(lon, Len(token))]
            ELSE IF token = <<"e", "x", "t">> THEN [known |-> TRUE, text |-> extension]
            ELSE [known |-> FALSE, text |-> <<>>]
        RECURSIVE loop(_, _)
        loop(i, result) ==
            IF i > Len(pattern)
            THEN [throws |-> FALSE, message |-> <<>>, path |-> result]
            ELSE IF pattern[i] # "{" THEN loop(i + 1, Append(result, pattern[i]))
            ELSE LET closing == find_closing(pattern, i + 1)
                     token == SubSeq(pattern, i + 1, closing - 1)
                 IN  IF closing = 0
                     THEN thrown(<<"Unclosed placeholder in pattern: ">> \o pattern)
                     ELSE IF token = <<>>
                     THEN thrown(<<"Empty placeholder in pattern: ">> \o pattern)
                     ELSE IF ~replacement(token).known
                     THEN thrown(<<"Unknown placeholder '{">> \o token
                                     \o <<"}' in pattern: ">> \o pattern)
                     ELSE loop(closing + 1, result \o replacement(token).text)
    IN  loop(1, <<>>)

(***************************************************************************)
(* MBTiles::extract.  A path is a sequence of characters and the output    *)
(* tree is a function from the paths of its files to their bytes.          *)
(***************************************************************************)
\* fs::path::extension() that finds no extension in any filename.
path_extension_None(path) == <<>>

\* fs::path::extension(): the filename is what follows the last '/'; its
\* extension starts at its last '.', unless there is none, the filename
\* starts with that '.', or the filename is "." or "..".
path_extension(path) ==
    LET slashes == {k \in 1..Len(path) : path[k] = "/"}
        start == IF slashes = {} THEN 1
                 ELSE 1 + CHOOSE k \in slashes : \A other \in slashes : other <= k
        filename == SubSeq(path, start, Len(path))
        dots == {k \in 1..Len(filename) : filename[k] = "."}
        last == CHOOSE k \in dots : \A other \in dots : other <= k
    IN  IF dots = {} \/ filename = <<".", ".">> THEN <<>>
        ELSE IF last = 1 THEN <<>>
        ELSE SubSeq(filename, last, Len(filename))

\* output_root / fs::path(relative_path), with the extension appended when
\* the path has none and the tile's extension token is not empty.
output_path(output_root, relative_path, extension_token) ==
    LET joined == IF relative_path # <<>> /\ relative_path[1] = "/" THEN relative_path
                  ELSE output_root \o <<"/">> \o relative_path
    IN  IF path_extension(joined) = <<>> /\ extension_token # <<>>
        THEN joined \o <<".">> \o extension_token
        ELSE joined

\* The output tree after a failed step that also removes every file.
WriteFile_RemovesAll(files, path, data, outcome, partial) ==
    IF outcome = "ok"
    THEN [p \in DOMAIN files \cup {path} |-> IF p = path THEN data ELSE files[p]]
    ELSE [p \in {} |-> <<>>]

\* The output tree after create_directories, std::ofstream file(output_path,
\* binary) and file.write(data).  Opening creates the file or empties the
\* one that exists; a write that fails leaves part of the data in it.
WriteFile(files, path, data, outcome, partial) ==
    IF outcome \in {"mkdir", "open"} THEN files
    ELSE [p \in DOMAIN files \cup {path} |->
              IF p # path THEN files[p]
              ELSE IF outcome = "ok" THEN data ELSE partial]

(***************************************************************************)
(* Levels of decoded tiles.  A level is a function from tile keys <<x, y>> *)
(* to images; an image is its width and height, 0 by 0 when the bytes did  *)
(* not decode.  Columns and rows are in 0..2^30 - 1, where x / 2, x % 2    *)
(* and 2 * x + 1 are the same over int as over the integers.               *)
(***************************************************************************)
\* downsample_level: the tiles are grouped under (x / 2, y / 2) at index
\* (y % 2) * 2 + (x % 2); a group gives a parent when its four places are
\* filled, the first image is not empty and all four have its size.
downsample_level(source_tiles) ==
    LET groups == {<<k[1] \div 2, k[2] \div 2>> : k \in DOMAIN source_tiles}
        idx(k) == (k[2] % 2) * 2 + (k[1] % 2)
        present(g) == {idx(k) : k \in {c \in DOMAIN source_tiles :
                                           <<c[1] \div 2, c[2] \div 2>> = g}}
        images(g) == [i \in 0..3 |-> source_tiles[<<2 * g[1] + (i % 2), 2 * g[2] + (i \div 2)>>]]
        emitted == {g \in groups :
                       /\ present(g) = 0..3
                       /\ images(g)[0].width > 0 /\ images(g)[0].height > 0
                       /\ \A i \in 0..3 : /\ images(g)[i].width = images(g)[0].width
                                          /\ images(g)[i].height = images(g)[0].height}
    IN  [g \in emitted |-> [width |-> images(g)[0].width, height |-> images(g)[0].height]]

\* The loop of the decrease_zoom tool over the files of the highest zoom:
\* for the parent (x / 2, y / 2) of each file the four children are looked
\* up and loaded; when all are found and load, each is resized to half its
\* size into its quarter of a 256 x 256 image, which is written.
decrease_zoom(availableFiles) ==
    LET parents == {<<k[1] \div 2, k[2] \div 2>> : k \in DOMAIN availableFiles}
        children(p) == {<<2 * p[1], 2 * p[2]>>, <<2 * p[1] + 1, 2 * p[2]>>,
                        <<2 * p[1], 2 * p[2] + 1>>, <<2 * p[1] + 1, 2 * p[2] + 1>>}
        allExist(p) == \A c \in children(p) :
                           c \in DOMAIN availableFiles /\ availableFiles[c].width > 0
    IN  [p \in {q \in parents : allExist(q)} |-> [width |-> 256, height |-> 256]]

\* downsample_level's canvas with the index computed as (x % 2) * 2 + (y % 2).
downsample_layout_Transposed(source_tiles) ==
    LET idx(k) == (k[1] % 2) * 2 + (k[2] % 2)
        child(g, i) == CHOOSE k \in DOMAIN source_tiles :
                           <<k[1] \div 2, k[2] \div 2>> = g /\ idx(k) = i
    IN  [g \in DOMAIN downsample_level(source_tiles) |->
            [i \in 0..3 |->
                [child |-> child(g, i), width |-> source_tiles[child(g, i)].width,
                 height |-> source_tiles[child(g, i)].height,
                 offset_x |-> (i % 2) * source_tiles[child(g, i)].width,
                 offset_y |-> (i \div 2) * source_tiles[child(g, i)].height]]]

\* The canvas of each parent downsample_level makes: group.images[idx] is
\* the tile stored under idx = (y % 2) * 2 + (x % 2), and image idx is
\* copied, child_width by child_height, to (offset_x, offset_y).
downsample_layout(source_tiles) ==
    LET idx(k) == (k[2] % 2) * 2 + (k[1] % 2)
        child(g, i) == CHOOSE k \in DOMAIN source_tiles :
                           <<k[1] \div 2, k[2] \div 2>> = g /\ idx(k) = i
        child_width(g) == source_tiles[child(g, 0)].width
        child_height(g) == source_tiles[child(g, 0)].height
    IN  [g \in DOMAIN downsample_level(source_tiles) |->
            [i \in 0..3 |->
                [child |-> child(g, i), width |-> child_width(g), height |-> child_height(g),
                 offset_x |-> (i % 2) * child_width(g),
                 offset_y |-> (i \div 2) * child_height(g)]]]

\* The 256 x 256 image of each parent decrease_zoom writes: children[i] is
\* resized to childW[i] / 2 by childH[i] / 2 at (dx, dy).
decrease_zoom_layout(availableFiles) ==
    LET children(p) == [i \in 0..3 |-> <<2 * p[1] + (i % 2), 2 * p[2] + (i \div 2)>>]
        childW(p, i) == availableFiles[children(p)[i]].width
        childH(p, i) == availableFiles[children(p)[i]].height
    IN  [p \in DOMAIN decrease_zoom(availableFiles) |->
            [i \in 0..3 |->
                [child |-> children(p)[i],
                 width |-> childW(p, i) \div 2, height |-> childH(p, i) \div 2,
                 offset_x |-> (i % 2) * (childW(p, i) \div 2),
                 offset_y |-> (i \div 2) * (childH(p, i) \div 2)]]]

\* upsample_level that makes the children of one row only.
upsample_level_OneRow(source_tiles) ==
    LET used == {k \in DOMAIN source_tiles : source_tiles[k].width > 0}
    IN  [c \in {<<2 * k[1] + dx, 2 * k[2]>> : k \in used, dx \in 0..1} |->
            source_tiles[<<c[1] \div 2, c[2] \div 2>>]]

\* upsample_level: every tile with a non-empty image is resized to twice
\* its size and cut into the children (2x + dx, 2y + dy) of its own size.
upsample_level(source_tiles) ==
    LET used == {k \in DOMAIN source_tiles :
                    ~(source_tiles[k].width <= 0 \/ source_tiles[k].height <= 0)}
    IN  [c \in {<<2 * k[1] + dx, 2 * k[2] + dy>> : k \in used, dx \in 0..1, dy \in 0..1} |->
            [width |-> source_tiles[<<c[1] \div 2, c[2] \div 2>>].width,
             height |-> source_tiles[<<c[1] \div 2, c[2] \div 2>>].height]]

(***************************************************************************)
(* resize_zoom_levels with an MBTiles output.  The input archive db is a   *)
(* function from its zoom levels to their tiles (a level as above); the    *)
(* output archive is its committed rows <<zoom, column, tms row>>, the     *)
(* rows of the open transaction and what became of the transaction.        *)
(***************************************************************************)
\* The split of the requested levels without the removal of repeated ones.
SplitLevels_KeepsRepeats(requested_levels, available_set) ==
    LET pick(copying) == SelectSeq(requested_levels,
                                   LAMBDA l : (l \in available_set) = copying)
    IN  [throws |-> \E i \in 1..Len(requested_levels) : requested_levels[i] < 0,
         requested_levels |-> requested_levels,
         copy_levels |-> SortSeq(pick(TRUE), LAMBDA a, b : a < b),
         generated_levels |-> SortSeq(pick(FALSE), LAMBDA a, b : a < b)]

\* The requested levels with repeats removed in order of first mention
\* (a negative level throws), then split into the levels the archive has
\* and the others, each list sorted.
SplitLevels(requested_levels, available_set) ==
    LET RECURSIVE unique(_, _)
        unique(i, unique_levels) ==
            IF i > Len(requested_levels) THEN unique_levels
            ELSE unique(i + 1,
                        IF \E k \in 1..Len(unique_levels) : unique_levels[k] = requested_levels[i]
                        THEN unique_levels ELSE Append(unique_levels, requested_levels[i]))
        deduplicated == unique(1, <<>>)
        pick(copying) == SelectSeq(deduplicated, LAMBDA l : (l \in available_set) = copying)
    IN  [throws |-> \E i \in 1..Len(requested_levels) : requested_levels[i] < 0,
         requested_levels |-> deduplicated,
         copy_levels |-> SortSeq(pick(TRUE), LAMBDA a, b : a < b),
         generated_levels |-> SortSeq(pick(FALSE), LAMBDA a, b : a < b)]

\* ensure_level_tiles that builds the level again when it is cached.
RECURSIVE ensure_level_tiles_Rebuilds(_, _, _)
ensure_level_tiles_Rebuilds(c, db, level) ==
    LET e == [c EXCEPT !.visited = Append(c.visited, level)]
        emplace(s, tiles) ==
            [s EXCEPT !.tile_cache = [l \in DOMAIN s.tile_cache \cup {level} |->
                                         IF l = level THEN tiles ELSE s.tile_cache[l]],
                      !.built = Append(s.built, level)]
        down == ensure_level_tiles_Rebuilds(e, db, level + 1)
        up == ensure_level_tiles_Rebuilds(e, db, level - 1)
    IN  IF level \in DOMAIN db THEN emplace(e, db[level])
        ELSE IF \E l \in DOMAIN db : level < l
        THEN emplace(down, downsample_level(down.tile_cache[level + 1]))
        ELSE emplace(up, upsample_level(up.tile_cache[level - 1]))

\* ensure_level_tiles that fills a gap from the level below it.
RECURSIVE ensure_level_tiles_GapFromBelow(_, _, _)
ensure_level_tiles_GapFromBelow(c, db, level) ==
    LET e == [c EXCEPT !.visited = Append(c.visited, level)]
        emplace(s, tiles) ==
            [s EXCEPT !.tile_cache = [l \in DOMAIN s.tile_cache \cup {level} |->
                                         IF l = level THEN tiles ELSE s.tile_cache[l]],
                      !.built = Append(s.built, level)]
        down == ensure_level_tiles_GapFromBelow(e, db, level + 1)
        up == ensure_level_tiles_GapFromBelow(e, db, level - 1)
    IN  IF level \in DOMAIN c.tile_cache THEN e
        ELSE IF level \in DOMAIN db THEN emplace(e, db[level])
        ELSE IF \A l \in DOMAIN db : level < l
        THEN emplace(down, downsample_level(down.tile_cache[level + 1]))
        ELSE emplace(up, upsample_level(up.tile_cache[level - 1]))

\* ensure_level_tiles(level) on the cache c.tile_cache: the cache after the
\* call and whether it threw, with three traces: c.visited extended by the
\* level of every invocation, c.built by the levels it loaded or generated
\* and c.grayed by the levels apply_grayscale_to_tiles converted, each in
\* order.
RECURSIVE ensure_level_tiles(_, _, _)
ensure_level_tiles(c, db, level) ==
    LET available_set == DOMAIN db
        min_zoom_available == CHOOSE l \in available_set : \A o \in available_set : l <= o
        max_zoom_available == CHOOSE l \in available_set : \A o \in available_set : o <= l
        e == [c EXCEPT !.visited = Append(c.visited, level)]
        emplace(s, tiles) ==
            [s EXCEPT !.tile_cache = [l \in DOMAIN s.tile_cache \cup {level} |->
                                         IF l = level THEN tiles ELSE s.tile_cache[l]],
                      !.built = Append(s.built, level)]
        apply_grayscale_to_tiles(s) ==
            IF ~s.grayscale THEN s ELSE [s EXCEPT !.grayed = Append(s.grayed, level)]
        down == ensure_level_tiles(e, db, level + 1)
        up == ensure_level_tiles(e, db, level - 1)
        downsampled == IF down.throws THEN down
                       ELSE emplace(apply_grayscale_to_tiles(down),
                                    downsample_level(down.tile_cache[level + 1]))
        upsampled == IF up.throws THEN up
                     ELSE emplace(apply_grayscale_to_tiles(up),
                                  upsample_level(up.tile_cache[level - 1]))
    IN  IF level \in DOMAIN c.tile_cache THEN e
        ELSE IF level \in available_set THEN emplace(e, db[level])
        ELSE IF level < min_zoom_available THEN downsampled
        ELSE IF level > max_zoom_available THEN upsampled
        ELSE IF \/ level + 1 <= max_zoom_available
                \/ level + 1 \in available_set
                \/ level + 1 \in DOMAIN c.tile_cache
        THEN downsampled
        ELSE IF level = 0 THEN [e EXCEPT !.throws = TRUE]
        ELSE upsampled

\* The output archive after a write phase that also commits what it had
\* inserted when a step fails.
WriteRows_CommitsPartial(out, rows, k, outcome) ==
    [committed |-> out.committed \cup {rows[i] : i \in 1..k}, pending |-> {},
     txn |-> "committed"]

\* The output archive after BEGIN IMMEDIATE, k inserted rows and then
\* COMMIT or a failure: a failed read of the input runs ROLLBACK, a failed
\* insert, decode or COMMIT throws with the transaction still open on the
\* connection that is being destroyed.
WriteRows(out, rows, k, outcome) ==
    IF outcome = "commit"
    THEN [committed |-> out.committed \cup {rows[i] : i \in 1..k}, pending |-> {},
          txn |-> "committed"]
    ELSE IF outcome \in {"read", "prepare"}
    THEN [committed |-> out.committed, pending |-> {}, txn |-> "rolled back"]
    ELSE [committed |-> out.committed, pending |-> {rows[i] : i \in 1..k},
          txn |-> "abandoned"]

(***************************************************************************)
(* RGBAImage.  The luma of toGrayScale is computed in doubles; a double    *)
(* below 256 that is a multiple of 2^-56 is held exactly as four 16-bit    *)
(* limbs of its value in units of 2^-56, least significant first.          *)
(***************************************************************************)
\* The doubles nearest to 0.299, 0.587 and 0.114.
LumaWeights == [r |-> <<1572, 38273, 35651, 76>>, g |-> <<33552, 51904, 17825, 150>>, b |-> <<30409, 40894, 12058, 29>>]

\* An exact value rounded to the 53 significant digits of a double, to
\* nearest and ties to even.  The digits dropped are at most 11, all of the
\* lowest limb.
RoundToDouble(a) ==
    LET top == CHOOSE i \in 1..4 : a[i] # 0 /\ \A j \in (i + 1)..4 : a[j] = 0
        high == CHOOSE h \in 0..15 : a[top] \div (2 ^ h) = 1
        dropped == 16 * (top - 1) + high - 52
        low == a[1] % (2 ^ dropped)
        half == 2 ^ (dropped - 1)
        up == low > half \/ (low = half /\ (a[1] \div (2 ^ dropped)) % 2 = 1)
        s1 == a[1] - low + (IF up THEN 2 ^ dropped ELSE 0)
        s2 == a[2] + s1 \div LimbBase
        s3 == a[3] + s2 \div LimbBase
        s4 == a[4] + s3 \div LimbBase
    IN  IF a = LLZero \/ 16 * (top - 1) + high <= 52 THEN a
        ELSE <<s1 % LimbBase, s2 % LimbBase, s3 % LimbBase, s4 % LimbBase>>

\* static_cast<unsigned char>(0.299 * r + 0.587 * g + 0.114 * b): each product
\* and each sum is rounded to a double, and the conversion truncates.
gray(r, g, b) ==
    LET times(w, n) ==
            LET p1 == w[1] * n
                p2 == w[2] * n + p1 \div LimbBase
                p3 == w[3] * n + p2 \div LimbBase
                p4 == w[4] * n + p3 \div LimbBase
            IN  RoundToDouble(<<p1 % LimbBase, p2 % LimbBase, p3 % LimbBase, p4 % LimbBase>>)
        plus(x, y) ==
            LET s1 == x[1] + y[1]
                s2 == x[2] + y[2] + s1 \div LimbBase
                s3 == x[3] + y[3] + s2 \div LimbBase
                s4 == x[4] + y[4] + s3 \div LimbBase
            IN  RoundToDouble(<<s1 % LimbBase, s2 % LimbBase, s3 % LimbBase, s4 % LimbBase>>)
        luma == plus(plus(times(LumaWeights.r, r), times(LumaWeights.g, g)),
                     times(LumaWeights.b, b))
    IN  luma[4] \div 256

\* RGBAImage::toGrayScale: the three colour bytes of each whole pixel become
\* its luma; the alpha bytes, width and height stay.
toGrayScale(image) ==
    LET total_pixels == Len(image.pixels) \div 4
        luma(i) == gray(image.pixels[4 * i + 1], image.pixels[4 * i + 2],
                        image.pixels[4 * i + 3])
    IN  IF image.pixels = <<>> THEN image
        ELSE [image EXCEPT !.pixels =
                 [j \in 1..Len(image.pixels) |->
                     IF (j - 1) \div 4 >= total_pixels \/ (j - 1) % 4 = 3
                     THEN image.pixels[j]
                     ELSE luma((j - 1) \div 4)]]

\* RGBAImage::load for a file stb_image decodes to file.pixels, or fails on:
\* stbi_load is handed &this->width and &this->height, and some of its
\* decoders store the size they read from the header before they fail on
\* the rest of the file (file.header), others store nothing.
load(image, file) ==
    IF ~file.decoded
    THEN [throws |-> TRUE,
          image |-> IF file.header
                    THEN [image EXCEPT !.width = file.width, !.height = file.height]
                    ELSE image]
    ELSE [throws |-> FALSE,
          image |-> [width |-> file.width, height |-> file.height, pixels |-> file.pixels]]

\* RGBAImage::loadFromMemory for a blob of the given size holding the file.
loadFromMemory(image, file, size) ==
    IF size <= 0 THEN [throws |-> TRUE, image |-> image] ELSE load(image, file)

(***************************************************************************)
(* The coordinate functions applied to bounded inputs.                     *)
(***************************************************************************)
MaxZoomInput == 65

MaxBoundsZoom == 3

NoResult == [throws |-> FALSE, value |-> -1]

NoBounds == [latMin |-> 0, latMax |-> 0, lonMin |-> 0, lonMax |-> 0]

CoordIdle ==
    [pc |-> "idle", z |-> 0, row |-> 0, fn |-> "none", r1 |-> NoResult,
     r2 |-> NoResult, x |-> 0, y |-> 0, b |-> NoBounds]

CoordInputs ==
    {[CoordIdle EXCEPT !.pc = "init", !.z = z, !.row = row] :
        z \in 0..MaxZoomInput, row \in {-1, 0, 1, 2, INT_MAX - 1, INT_MAX}}
    \cup UNION {{[CoordIdle EXCEPT !.pc = "init", !.z = z, !.row = row] :
                     row \in {2 ^ (z - 1), 2 ^ z - 2, 2 ^ z - 1, 2 ^ z}} : z \in 1..30}

RowFn(fn, row, z) ==
    IF fn = "tms_to_xyz_y" THEN tms_to_xyz_y(row, z) ELSE xyz_to_tms_y(row, z)

OtherFn(fn) == IF fn = "tms_to_xyz_y" THEN "xyz_to_tms_y" ELSE "tms_to_xyz_y"

\* One call of a row transform on the chosen input.
CallRowTransform ==
    /\ coord.pc = "init"
    /\ \E fn \in {"tms_to_xyz_y", "xyz_to_tms_y"} : \E o \in RowFn(fn, coord.row, coord.z) :
           coord' = [coord EXCEPT !.pc = "called", !.fn = fn, !.r1 = o]
    /\ UNCHANGED <<norm, store, iter, pat, xtr, samp, rsz, img, view, crt, dl>>

\* The other transform applied to the value the first call returned.
CallInverse ==
    /\ coord.pc = "called"
    /\ ~coord.r1.throws
    /\ \E o \in RowFn(OtherFn(coord.fn), coord.r1.value, coord.z) :
           coord' = [coord EXCEPT !.pc = "roundtrip", !.r2 = o]
    /\ UNCHANGED <<norm, store, iter, pat, xtr, samp, rsz, img, view, crt, dl>>

\* The four bounds of a tile with 0 <= x, y < 2^zoom.
CallTileBounds ==
    /\ coord.pc = "init"
    /\ coord.z <= MaxBoundsZoom
    /\ \E x \in 0..(2 ^ coord.z - 1) : \E y \in 0..(2 ^ coord.z - 1) :
           LET t == [zoom |-> coord.z, x |-> x, y |-> y]
           IN  coord' = [coord EXCEPT !.pc = "bounds", !.x = x, !.y = y,
                             !.b = [latMin |-> latMin(t), latMax |-> latMax(t),
                                    lonMin |-> lonMin(t), lonMax |-> lonMax(t)]]
    /\ UNCHANGED <<norm, store, iter, pat, xtr, samp, rsz, img, view, crt, dl>>

(***************************************************************************)
(* The normalisation applied to bounded tokens, once and then to its own   *)
(* output.                                                                 *)
(***************************************************************************)
MaxTokenLen == 5

NormAlphabet == {" ", ".", "J", "j", "p", "e", "g"}

TokenInputs == UNION {[1..n -> NormAlphabet] : n \in 0..MaxTokenLen}

NormIdle == [pc |-> "idle", input |-> <<>>, out1 |-> <<>>, out2 |-> <<>>]

NormInputs == {[NormIdle EXCEPT !.pc = "init", !.input = s] : s \in TokenInputs}

NormalizeToken ==
    /\ norm.pc = "init"
    /\ norm' = [norm EXCEPT !.pc = "once", !.out1 = normalize_extension_token(norm.input)]
    /\ UNCHANGED <<coord, store, iter, pat, xtr, samp, rsz, img, view, crt, dl>>

NormalizeAgain ==
    /\ norm.pc = "once"
    /\ norm' = [norm EXCEPT !.pc = "twice", !.out2 = normalize_extension_token(norm.out1)]
    /\ UNCHANGED <<coord, store, iter, pat, xtr, samp, rsz, img, view, crt, dl>>

NormNext == NormalizeToken \/ NormalizeAgain

(***************************************************************************)
(* An archive and the calls made on it.  store is the database file:       *)
(* schema and metadata are the metadata table, tiles the tiles table.      *)
(* store.call records the last setMetadata call and the rows before it.    *)
(***************************************************************************)
MaxSetCalls == 2

MaxTiles == 2

MaxFormatWrites == 1

NoCall ==
    [kind |-> "none", entries |-> <<>>, overwrite |-> FALSE, throws |-> FALSE,
     schemaBefore |-> "none", before |-> <<>>]

StoreIdle ==
    [pc |-> "idle", schema |-> "none", metadata |-> <<>>, tilesTable |-> FALSE,
     tiles |-> <<>>, calls |-> 0, call |-> NoCall, autocommit |-> TRUE]

\* A file that MBTiles::open just created (sqlite3_open makes an empty database).
FreshStore == [StoreIdle EXCEPT !.pc = "open"]

\* A file that mbtiles_creator made: createMBTilesDB's tables and metadata.
CreatorStore(tiles) ==
    [StoreIdle EXCEPT !.pc = "open", !.schema = "nopk", !.metadata = CreatorMetadata,
                      !.tilesTable = TRUE, !.tiles = tiles]

\* An archive whose metadata table setMetadata created, holding the given rows.
KeyedStore(rows, tiles) ==
    [StoreIdle EXCEPT !.pc = "open", !.schema = "pk", !.metadata = rows,
                      !.tilesTable = TRUE, !.tiles = tiles]

\* The batches over a set of keys and a set of values: every map from a
\* subset of the keys to the values.
Batches(keys, values) == UNION {[d -> values] : d \in SUBSET keys}

\* One setMetadata(entries, overwrite_existing) call; store.metadata is the
\* table as the connection sees it.
SetMetadataCall(entries, overwrite_existing, env) ==
    LET r == setMetadataExit(store.autocommit, store.schema, store.metadata, entries,
                             overwrite_existing, env)
    IN  store' = [store EXCEPT !.schema = r.schema, !.metadata = r.rows,
                               !.autocommit = r.autocommit,
                               !.calls = store.calls + 1,
                               !.call = [kind |-> "set", entries |-> entries,
                                         overwrite |-> overwrite_existing,
                                         throws |-> r.throws,
                                         schemaBefore |-> store.schema,
                                         before |-> store.metadata]]

MetaKeys == {"a", "b", "name"}

MetaValues == {<<"1">>, <<"2">>}

\* Which SQLite call of setMetadata fails for an outside cause, if any.
MetaOutcomes == {"ok", "create fails", "begin fails", "step fails", "commit fails"}

SetMetadata ==
    /\ store.pc = "open"
    /\ store.calls < MaxSetCalls
    /\ \E entries \in Batches(MetaKeys, MetaValues) : \E overwrite_existing \in BOOLEAN :
           \E env \in MetaOutcomes : SetMetadataCall(entries, overwrite_existing, env)
    /\ UNCHANGED <<coord, norm, iter, pat, xtr, samp, rsz, img, view, crt, dl>>

MetaNext == SetMetadata

(***************************************************************************)
(* An iterator over an archive, with format metadata written meanwhile.    *)
(* The fields of iter beyond the iterator's own record what it did:        *)
(* formatRead is the format value the constructor read, ended whether an   *)
(* earlier next() returned end, yielded and threw what happened before the *)
(* first end.                                                              *)
(***************************************************************************)
IterIdle ==
    [pc |-> "none", it |-> TileIterator("none", <<>>), formatRead |-> <<>>,
     kind |-> "none", tile |-> NoTile, rowRead |-> FALSE, row |-> NoRow,
     ended |-> FALSE, yielded |-> 0, threw |-> FALSE]

TileRowInputs ==
    {[zoom_level |-> 0, tile_column |-> 0, tile_row |-> 0, tile_data |-> PngBlob],
     [zoom_level |-> 1, tile_column |-> 0, tile_row |-> 1, tile_data |-> JpgBlob],
     [zoom_level |-> 1, tile_column |-> 1, tile_row |-> 0, tile_data |-> WebpBlob],
     [zoom_level |-> 31, tile_column |-> 0, tile_row |-> 0, tile_data |-> RiffWaveBlob],
     [zoom_level |-> 0, tile_column |-> 0, tile_row |-> 1, tile_data |-> ShortPngBlob],
     [zoom_level |-> 1, tile_column |-> 0, tile_row |-> -1, tile_data |-> <<>>],
     [zoom_level |-> 62, tile_column |-> 0, tile_row |-> 0, tile_data |-> PngBlob],
     [zoom_level |-> 63, tile_column |-> 0, tile_row |-> 0, tile_data |-> PngBlob],
     [zoom_level |-> -1, tile_column |-> 0, tile_row |-> 0, tile_data |-> JpgBlob]}

\* The tiles tables: up to MaxTiles distinct rows in any order.
TileTables ==
    UNION {{t \in [1..n -> TileRowInputs] : \A i, j \in 1..n : t[i] = t[j] => i = j} :
               n \in 0..MaxTiles}

FormatValues == {TxtPng, TxtPaddedJpeg, TxtBlank}

IterStores ==
    {FreshStore}
        \cup {CreatorStore(t) : t \in TileTables}
        \cup {KeyedStore(<<>>, t) : t \in TileTables}
        \cup {KeyedStore(<<[name |-> "format", value |-> v]>>, t) :
                  v \in FormatValues, t \in TileTables}

\* TileIterator iter(db): a new iterator; one that existed is destroyed.
NewIterator ==
    /\ store.pc = "open"
    /\ iter' = [IterIdle EXCEPT !.pc = "open",
                                !.it = TileIterator(store.schema, store.metadata),
                                !.formatRead = FormatValue(store.schema, store.metadata)]
    /\ UNCHANGED <<coord, norm, store, pat, xtr, samp, rsz, img, view, crt, dl>>

\* iter.next()
Next ==
    /\ iter.pc = "open"
    /\ LET o == next(iter.it, store.tilesTable, store.tiles)
           ended == iter.ended \/ iter.kind = "end"
       IN  iter' = [iter EXCEPT !.it = o.it, !.kind = o.kind, !.tile = o.tile,
                                    !.rowRead = o.rowRead, !.row = o.row,
                                    !.ended = ended,
                                    !.yielded = IF ~ended /\ o.kind = "tile"
                                                THEN iter.yielded + 1 ELSE iter.yielded,
                                    !.threw = iter.threw \/ (~ended /\ o.kind = "throw")]
    /\ UNCHANGED <<coord, norm, store, pat, xtr, samp, rsz, img, view, crt, dl>>

\* setMetadata("format", value, overwrite_existing) while an iterator may exist.
SetFormat ==
    /\ store.pc = "open"
    /\ store.calls < MaxFormatWrites
    /\ \E entries \in Batches({"format"}, FormatValues) \ {<<>>} :
       \E overwrite_existing \in BOOLEAN :
           SetMetadataCall(entries, overwrite_existing, "ok")
    /\ UNCHANGED <<coord, norm, iter, pat, xtr, samp, rsz, img, view, crt, dl>>

IterNext == NewIterator \/ Next \/ SetFormat

(***************************************************************************)
(* format_pattern applied to bounded patterns and tile coordinates.        *)
(***************************************************************************)
MaxPatternLen == 4

PatIdle ==
    [pc |-> "idle", z |-> 0, x |-> 0, y |-> 0, pattern |-> <<>>, extension |-> <<>>,
     r |-> [throws |-> FALSE, message |-> <<>>, path |-> <<>>]]

\* Every pattern of at most MaxPatternLen characters over braces, the
\* column tokens and a character that is no token.
ShortPatterns ==
    UNION {[1..n -> {"{", "}", "X", "x", "q"}] : n \in 0..MaxPatternLen}

\* The default pattern of ExtractOptions and patterns with the other tokens
\* but the geographic ones.
LongPatterns ==
    {<<"{", "z", "}", "/", "{", "x", "}", "/", "{", "y", "}", ".", "{", "e", "x", "t", "}">>,
     <<"{", "Z", "Z", "}", "/", "{", "X", "X", "X", "}", "/", "{", "Y", "}", "_", "{", "z", "}">>,
     <<"t", "/", "{", "z", "}", "/", "{", "x", "}", "/", "{", "y">>,
     <<"{", "z", "}", "/", "{", "e", "x", "}", "/", "{", "y", "}">>,
     <<"{", "z", "}", "{", "}", "{", "y", "}">>}

\* The calls made: every pattern on tiles of zooms 5 and 7 (one with a row
\* below zero), the long patterns and a geographic one on the tiles of
\* zooms 0..2.
PatInputs ==
    LET geographic ==
            <<"{", "a", "}", "_", "{", "o", "}", "/", "{", "A", "A", "A", "}", "{", "O", "}">>
        anywhere == {<<5, 3, 10>>, <<7, 10, 5>>, <<7, 100, 5>>, <<7, 101, -1>>}
        tabulated == UNION {{<<z, x, y>> : x \in 0..(2 ^ z - 1), y \in 0..(2 ^ z - 1)} :
                               z \in 0..2}
        calls == (anywhere \X (ShortPatterns \cup LongPatterns))
                     \cup (tabulated \X (LongPatterns \cup {geographic}))
    IN  {[PatIdle EXCEPT !.pc = "ready", !.z = c[1][1], !.x = c[1][2], !.y = c[1][3],
                         !.pattern = c[2], !.extension = e] :
            c \in calls, e \in {<<"p", "n", "g">>, <<>>}}

FormatPattern ==
    /\ pat.pc = "ready"
    /\ pat' = [pat EXCEPT !.pc = "done",
                          !.r = format_pattern(pat.z, pat.x, pat.y, pat.pattern,
                                               pat.extension)]
    /\ UNCHANGED <<coord, norm, store, iter, xtr, samp, rsz, img, view, crt, dl>>

PatNext == FormatPattern

(***************************************************************************)
(* One extract call on an archive.  xtr.handled counts the tiles the loop  *)
(* took up, xtr.count the ones it finished; row, tile and path are those   *)
(* of the last tile taken up, filesBefore the tree before it, failed the   *)
(* step that threw.                                                        *)
(***************************************************************************)
XtrIdle ==
    [pc |-> "idle", pattern |-> <<>>, it |-> TileIterator("none", <<>>), count |-> 0,
     handled |-> 0, files |-> [p \in {} |-> <<>>], filesBefore |-> [p \in {} |-> <<>>],
     row |-> NoRow, tile |-> NoTile, path |-> <<>>, failed |-> "none"]

OutputRoot == <<"o", "u", "t">>

\* The patterns of the calls: the default one, one without an extension,
\* one that tells tiles apart by zoom only, one with an unknown token.  The
\* archives are a new file, ones of mbtiles_creator (format jpg) and ones
\* with no format row, whose extensions are sniffed.
ExtractPatterns ==
    {<<"{", "z", "}", "/", "{", "x", "}", "/", "{", "y", "}", ".", "{", "e", "x", "t", "}">>,
     <<"{", "z", "}", "/", "{", "x", "}", "/", "{", "y", "}">>,
     <<"t", "{", "z", "}">>,
     <<"{", "z", "}", "/", "{", "r", "o", "w", "}">>}

ExtractStores ==
    {FreshStore}
        \cup {CreatorStore(t) : t \in TileTables}
        \cup {KeyedStore(<<>>, t) : t \in TileTables}

\* extract up to the loop: the output root is created and the iterator made.
ExtractBegin ==
    /\ store.pc = "open" /\ xtr.pc = "ready"
    /\ \E created \in BOOLEAN :
           xtr' = IF created
                  THEN [xtr EXCEPT !.pc = "running",
                                   !.it = TileIterator(store.schema, store.metadata)]
                  ELSE [xtr EXCEPT !.pc = "threw", !.failed = "root"]
    /\ UNCHANGED <<coord, norm, store, iter, pat, samp, rsz, img, view, crt, dl>>

\* One turn of the loop: iter.next(), and for a tile its path, its
\* directory and its file; or the return of the count after the last tile.
ExtractTile ==
    /\ xtr.pc = "running"
    /\ LET o == next(xtr.it, store.tilesTable, store.tiles)
           expanded == format_pattern(o.tile.zoom, o.tile.x, o.tile.y, xtr.pattern,
                                      o.tile.extension)
           path == output_path(OutputRoot, expanded.path, o.tile.extension)
           taken == [xtr EXCEPT !.it = o.it, !.handled = xtr.handled + 1,
                                !.filesBefore = xtr.files, !.row = o.row,
                                !.tile = o.tile, !.path = <<>>]
       IN  IF o.kind = "end" THEN xtr' = [xtr EXCEPT !.it = o.it, !.pc = "returned"]
           ELSE IF o.kind = "throw"
           THEN xtr' = [taken EXCEPT !.pc = "threw", !.failed = "next"]
           ELSE IF expanded.throws
           THEN xtr' = [taken EXCEPT !.pc = "threw", !.failed = "pattern"]
           ELSE \E outcome \in {"ok", "mkdir", "open", "write"} :
                \E partial \in {<<>>, SubSeq(o.tile.data, 1, Len(o.tile.data) - 1)} :
                    xtr' = [taken EXCEPT
                               !.path = path,
                               !.files = WriteFile(xtr.files, path, o.tile.data, outcome,
                                                   partial),
                               !.count = IF outcome = "ok" THEN xtr.count + 1
                                         ELSE xtr.count,
                               !.pc = IF outcome = "ok" THEN "running" ELSE "threw",
                               !.failed = IF outcome = "ok" THEN "none" ELSE outcome]
    /\ UNCHANGED <<coord, norm, store, iter, pat, samp, rsz, img, view, crt, dl>>

ExtractNext == ExtractBegin \/ ExtractTile

(***************************************************************************)
(* A level of tiles handed to one of the three resampling routines.        *)
(***************************************************************************)
MaxSourceColumn == 2

SampIdle ==
    [pc |-> "idle", fn |-> "none", source |-> [k \in {} |-> 0], result |-> [k \in {} |-> 0],
     layout |-> [k \in {} |-> 0]]

\* The levels: any tiles of columns 0..MaxSourceColumn and rows 0..1, each
\* undecodable, 128 x 128 or 256 x 256.
SampInputs ==
    LET keys == (0..MaxSourceColumn) \X (0..1)
        images == {[width |-> w, height |-> w] : w \in {0, 128, 256}}
    IN  {[SampIdle EXCEPT !.pc = "ready", !.source = s] :
            s \in UNION {[d -> images] : d \in SUBSET keys}}

DownsampleLevel ==
    /\ samp.pc = "ready"
    /\ samp' = [samp EXCEPT !.pc = "done", !.fn = "downsample_level",
                            !.result = downsample_level(samp.source),
                            !.layout = downsample_layout(samp.source)]
    /\ UNCHANGED <<coord, norm, store, iter, pat, xtr, rsz, img, view, crt, dl>>

DecreaseZoom ==
    /\ samp.pc = "ready"
    /\ samp' = [samp EXCEPT !.pc = "done", !.fn = "decrease_zoom",
                            !.result = decrease_zoom(samp.source),
                            !.layout = decrease_zoom_layout(samp.source)]
    /\ UNCHANGED <<coord, norm, store, iter, pat, xtr, rsz, img, view, crt, dl>>

UpsampleLevel ==
    /\ samp.pc = "ready"
    /\ samp' = [samp EXCEPT !.pc = "done", !.fn = "upsample_level",
                            !.result = upsample_level(samp.source)]
    /\ UNCHANGED <<coord, norm, store, iter, pat, xtr, rsz, img, view, crt, dl>>

SampNext == DownsampleLevel \/ DecreaseZoom \/ UpsampleLevel

(***************************************************************************)
(* One resize_zoom_levels call.  rsz.rows are the rows the write phase is  *)
(* to insert, copied levels first; rsz.inserted is how many it inserted,   *)
(* rsz.failed the step that threw, rsz.outBefore the committed rows of the *)
(* output archive before the call.                                         *)
(***************************************************************************)
MaxRequested == 2

RszIdle ==
    [pc |-> "idle", db |-> <<>>, target_levels |-> <<>>, grayscale |-> FALSE,
     requested_levels |-> <<>>, copy_levels |-> <<>>, generated_levels |-> <<>>,
     tile_cache |-> <<>>, built |-> <<>>, grayed |-> <<>>, calls |-> <<>>,
     throws |-> FALSE, rows |-> <<>>, inserted |-> 0, failed |-> "none", outBefore |-> {},
     out |-> [committed |-> {}, pending |-> {}, txn |-> "none"]]

\* The calls: an input archive with any of the levels 0..MaxRequested (one
\* tile at level 0, the four tiles of columns and rows 0..1 at the others),
\* up to MaxRequested target levels from -1..MaxRequested, and an output
\* archive that is new or holds a row already.
RszInputs ==
    LET tiles(l) == [k \in (IF l = 0 THEN {<<0, 0>>} ELSE (0..1) \X (0..1)) |->
                        [width |-> 256, height |-> 256]]
        archives == {[l \in a |-> tiles(l)] : a \in SUBSET (0..MaxRequested)}
        targets == UNION {[1..n -> -1..MaxRequested] : n \in 0..MaxRequested}
    IN  {[RszIdle EXCEPT !.pc = "ready", !.db = a, !.target_levels = t, !.grayscale = g,
                         !.outBefore = o, !.out.committed = o] :
            a \in archives, t \in targets, g \in BOOLEAN, o \in {{}, {<<1, 0, 0>>}}}

\* resize_zoom_levels up to the split of the requested levels.
ResizePlan ==
    /\ rsz.pc = "ready"
    /\ LET available_set == DOMAIN rsz.db
           min_zoom_available == CHOOSE l \in available_set : \A o \in available_set : l <= o
           requested_levels == IF rsz.target_levels = <<>> THEN <<min_zoom_available - 1>>
                               ELSE rsz.target_levels
           split == SplitLevels(requested_levels, available_set)
       IN  IF available_set = {}
           THEN rsz' = [rsz EXCEPT !.pc = "threw", !.failed = "no tiles"]
           ELSE IF rsz.target_levels = <<>> /\ min_zoom_available <= 0
           THEN rsz' = [rsz EXCEPT !.pc = "threw", !.failed = "minimum zoom"]
           ELSE IF split.throws
           THEN rsz' = [rsz EXCEPT !.pc = "threw", !.failed = "negative level"]
           ELSE rsz' = [rsz EXCEPT !.pc = "planned",
                                   !.requested_levels = split.requested_levels,
                                   !.copy_levels = split.copy_levels,
                                   !.generated_levels = split.generated_levels]
    /\ UNCHANGED <<coord, norm, store, iter, pat, xtr, samp, img, view, crt, dl>>

\* for (int level : generated_levels) ensure_level_tiles(level), then the
\* rows of the write phase: the stored rows of the copied levels and, with
\* ensure_level_tiles called for each generated level once more, its tiles
\* at their TMS rows.  rsz.calls holds the levels each of these calls
\* visited.
ResizeGenerate ==
    /\ rsz.pc = "planned"
    /\ LET RECURSIVE generate(_, _)
           generate(i, c) ==
               IF i > Len(rsz.generated_levels) \/ c.throws THEN c
               ELSE LET r == ensure_level_tiles([c EXCEPT !.visited = <<>>], rsz.db,
                                                rsz.generated_levels[i])
                    IN  generate(i + 1, [r EXCEPT !.calls = Append(c.calls, r.visited)])
           ensured == generate(1, [tile_cache |-> rsz.tile_cache, built |-> rsz.built,
                                   grayed |-> rsz.grayed, grayscale |-> rsz.grayscale,
                                   visited |-> <<>>, calls |-> rsz.calls,
                                   throws |-> FALSE])
           c == generate(1, ensured)
           tms(l, k) == <<l, k[1], 2 ^ l - 1 - k[2]>>
           RECURSIVE ordered(_)
           ordered(s) == IF s = {} THEN <<>>
                         ELSE LET r == CHOOSE a \in s : \A b \in s :
                                           a[2] < b[2] \/ (a[2] = b[2] /\ a[3] <= b[3])
                              IN  <<r>> \o ordered(s \ {r})
           RECURSIVE rows(_, _)
           rows(levels, from) ==
               IF levels = <<>> THEN <<>>
               ELSE ordered({tms(levels[1], k) : k \in DOMAIN from[levels[1]]})
                        \o rows(Tail(levels), from)
       IN  IF c.throws
           THEN rsz' = [rsz EXCEPT !.pc = "threw", !.failed = "unable to generate",
                                   !.tile_cache = c.tile_cache, !.built = c.built,
                                   !.grayed = c.grayed, !.calls = c.calls,
                                   !.throws = TRUE]
           ELSE rsz' = [rsz EXCEPT !.pc = "generated", !.tile_cache = c.tile_cache,
                                   !.built = c.built, !.grayed = c.grayed,
                                   !.calls = c.calls,
                                   !.rows = rows(rsz.copy_levels, rsz.db)
                                                \o rows(rsz.generated_levels, c.tile_cache)]
    /\ UNCHANGED <<coord, norm, store, iter, pat, xtr, samp, img, view, crt, dl>>

\* The MBTiles output: BEGIN IMMEDIATE, the insert statement, one insert
\* per row and COMMIT; any step may fail.  A read or a decode fails on a row
\* of a copied level, a decode only when tiles are converted to grayscale.
ResizeWrite ==
    /\ rsz.pc = "generated"
    /\ \E k \in 0..Len(rsz.rows) :
       \E outcome \in {"commit", "commit fails", "begin", "prepare", "insert", "read", "decode"} :
           /\ outcome \in {"commit", "commit fails"} => k = Len(rsz.rows)
           /\ outcome \in {"begin", "prepare"} => k = 0
           /\ outcome = "insert" => k < Len(rsz.rows)
           /\ outcome \in {"read", "decode"} =>
                  /\ k < Len(rsz.rows)
                  /\ \E i \in 1..Len(rsz.copy_levels) : rsz.copy_levels[i] = rsz.rows[k + 1][1]
           /\ outcome = "decode" => rsz.grayscale
           /\ rsz' = [rsz EXCEPT
                         !.pc = IF outcome = "commit" THEN "done" ELSE "threw",
                         !.failed = IF outcome = "commit" THEN "none" ELSE outcome,
                         !.inserted = k,
                         !.out = IF outcome = "begin" THEN rsz.out
                                 ELSE WriteRows(rsz.out, rsz.rows, k, outcome)]
    /\ UNCHANGED <<coord, norm, store, iter, pat, xtr, samp, img, view, crt, dl>>

RszNext == ResizePlan \/ ResizeGenerate \/ ResizeWrite

(***************************************************************************)
(* An RGBAImage object and the calls made on it.  img.run counts the       *)
(* toGrayScale calls since the last other call and img.once holds the      *)
(* pixels the first of them left; img.before is the object before the last *)
(* call.                                                                   *)
(***************************************************************************)
MaxImageCalls == 3

NoImage == [width |-> 0, height |-> 0, pixels |-> <<>>]

ImgIdle ==
    [pc |-> "idle", image |-> NoImage, calls |-> 0, fn |-> "none", threw |-> FALSE,
     run |-> 0, once |-> <<>>, before |-> NoImage]

\* The files: images of one pixel and of two pixels in a row, a file that
\* is no image, and a file cut off after a header that says 2 x 2.
ImageFiles ==
    LET colours == {<<2, 2, 2, 255>>, <<1, 1, 1, 0>>, <<255, 255, 255, 255>>,
                    <<200, 30, 90, 7>>, <<0, 0, 0, 128>>, <<87, 87, 87, 9>>}
        decoded(w, px) == [decoded |-> TRUE, header |-> TRUE, width |-> w, height |-> 1,
                           pixels |-> px]
    IN  {decoded(1, c) : c \in colours}
            \cup {decoded(2, c \o e) : c \in colours, e \in colours}
            \cup {[decoded |-> FALSE, header |-> h, width |-> 2, height |-> 2,
                   pixels |-> <<>>] : h \in BOOLEAN}

\* The result of one call on the object.
ImageCall(fn, r) ==
    img' = [img EXCEPT !.pc = "live", !.image = r.image, !.calls = img.calls + 1,
                       !.fn = fn, !.threw = r.throws,
                       !.run = IF fn = "toGrayScale" THEN img.run + 1 ELSE 0,
                       !.once = IF fn # "toGrayScale" THEN <<>>
                                ELSE IF img.run = 0 THEN r.image.pixels ELSE img.once,
                       !.before = img.image]

\* RGBAImage(), RGBAImage(path) and RGBAImage(data, size); a constructor
\* that throws leaves no object.
Construct ==
    /\ img.pc = "new"
    /\ \/ ImageCall("RGBAImage", [throws |-> FALSE, image |-> NoImage])
       \/ \E file \in ImageFiles : \E size \in {0, 1} :
              LET r == IF size = 0 THEN load(NoImage, file)
                       ELSE loadFromMemory(NoImage, file, size)
              IN  IF r.throws
                  THEN img' = [img EXCEPT !.pc = "none", !.fn = "RGBAImage", !.threw = TRUE]
                  ELSE ImageCall("RGBAImage", r)
    /\ UNCHANGED <<coord, norm, store, iter, pat, xtr, samp, rsz, view, crt, dl>>

Load ==
    /\ img.pc = "live" /\ img.calls < MaxImageCalls
    /\ \E file \in ImageFiles : ImageCall("load", load(img.image, file))
    /\ UNCHANGED <<coord, norm, store, iter, pat, xtr, samp, rsz, view, crt, dl>>

LoadFromMemory ==
    /\ img.pc = "live" /\ img.calls < MaxImageCalls
    /\ \E file \in ImageFiles : \E size \in {0, 1} :
           ImageCall("loadFromMemory", loadFromMemory(img.image, file, size))
    /\ UNCHANGED <<coord, norm, store, iter, pat, xtr, samp, rsz, view, crt, dl>>

ToGrayScale ==
    /\ img.pc = "live" /\ img.calls < MaxImageCalls
    /\ ImageCall("toGrayScale", [throws |-> FALSE, image |-> toGrayScale(img.image)])
    /\ UNCHANGED <<coord, norm, store, iter, pat, xtr, samp, rsz, view, crt, dl>>

ImgNext == Construct \/ Load \/ LoadFromMemory \/ ToGrayScale

(***************************************************************************)
(* serve_viewer: the connection db, its mutex db_mutex, the three queries  *)
(* made before the server listens and the tile handler, which the server   *)
(* runs on the threads of its pool.  view.mutex is the thread that holds   *)
(* db_mutex (0 when it is unlocked), th.stmt the state of the thread's     *)
(* statement on db.                                                        *)
(***************************************************************************)
MaxWorkers == 2

ViewWorkers == 1..MaxWorkers

ViewIdle ==
    [main |-> "idle", queries |-> 0, mutex |-> 0,
     th |-> [t \in ViewWorkers |->
                [pc |-> "idle", zoom |-> 0, column |-> 0, row |-> 0, stmt |-> "none",
                 status |-> 0, tile_data |-> <<>>]]]

\* The rows <<zoom_level, tile_column, tile_row>> of the archive served and
\* their blobs; one blob is empty.
ViewTiles == (<<1, 0, 1>> :> PngBlob) @@ (<<1, 1, 0>> :> <<>>)

\* The requests /view/tiles/zoom/column/row.
ViewRequests == {<<1, 0, 0>>, <<1, 1, 1>>, <<1, 0, 1>>, <<1, 2, 0>>, <<0, 0, 1>>}

\* A lock that is granted although db_mutex is held.
lock_guard_Unguarded(mutex) == TRUE

\* std::lock_guard<std::mutex> lock(db_mutex) can be constructed.
lock_guard(mutex) == mutex = 0

\* tile_count, min_zoom and max_zoom: each lambda locks db_mutex, prepares,
\* steps, reads and finalizes its statement and unlocks, before the server
\* exists.
StartupQuery ==
    /\ view.main = "start" /\ view.queries < 3
    /\ lock_guard(view.mutex)
    /\ view' = [view EXCEPT !.queries = view.queries + 1]
    /\ UNCHANGED <<coord, norm, store, iter, pat, xtr, samp, rsz, img, crt, dl>>

\* server.listen: requests are handled from here on.
Listen ==
    /\ view.main = "start" /\ view.queries = 3
    /\ view' = [view EXCEPT !.main = "listening"]
    /\ UNCHANGED <<coord, norm, store, iter, pat, xtr, samp, rsz, img, crt, dl>>

\* The handler up to the block that holds the lock: coordinates out of
\* range are answered with 404 without touching the database.
Receive ==
    /\ view.main = "listening"
    /\ \E t \in ViewWorkers : \E req \in ViewRequests :
           LET max_index == 2 ^ req[1] - 1
               inRange == ~(req[2] > max_index \/ req[3] > max_index)
           IN  /\ view.th[t].pc = "idle"
               /\ view' = [view EXCEPT !.th[t] =
                              [pc |-> IF inRange THEN "query" ELSE "idle",
                               zoom |-> req[1], column |-> req[2], row |-> req[3],
                               stmt |-> "none", status |-> IF inRange THEN 0 ELSE 404,
                               tile_data |-> <<>>]]
    /\ UNCHANGED <<coord, norm, store, iter, pat, xtr, samp, rsz, img, crt, dl>>

Lock ==
    /\ \E t \in ViewWorkers :
           /\ view.th[t].pc = "query"
           /\ lock_guard(view.mutex)
           /\ view' = [view EXCEPT !.mutex = t, !.th[t].pc = "locked"]
    /\ UNCHANGED <<coord, norm, store, iter, pat, xtr, samp, rsz, img, crt, dl>>

\* sqlite3_prepare_v2 and the binds; a failed prepare answers 500 and
\* leaves the block with no statement.
Prepare ==
    /\ \E t \in ViewWorkers : \E ok \in BOOLEAN :
           /\ view.th[t].pc = "locked"
           /\ view' = [view EXCEPT !.th[t].pc = IF ok THEN "prepared" ELSE "unlocking",
                                   !.th[t].stmt = IF ok THEN "prepared" ELSE "none",
                                   !.th[t].status = IF ok THEN 0 ELSE 500]
    /\ UNCHANGED <<coord, norm, store, iter, pat, xtr, samp, rsz, img, crt, dl>>

\* sqlite3_step for the row max_index - row; no row answers 404.
Step ==
    /\ \E t \in ViewWorkers :
           LET th == view.th[t]
               found == <<th.zoom, th.column, 2 ^ th.zoom - 1 - th.row>> \in DOMAIN ViewTiles
           IN  /\ th.pc = "prepared"
               /\ view' = [view EXCEPT !.th[t].pc = IF found THEN "row" ELSE "leaving",
                                       !.th[t].stmt = IF found THEN "row" ELSE "done",
                                       !.th[t].status = IF found THEN 0 ELSE 404]
    /\ UNCHANGED <<coord, norm, store, iter, pat, xtr, samp, rsz, img, crt, dl>>

\* sqlite3_column_blob and sqlite3_column_bytes; an empty blob answers 404,
\* another is copied to tile_data.
Read ==
    /\ \E t \in ViewWorkers :
           LET th == view.th[t]
               blob == ViewTiles[<<th.zoom, th.column, 2 ^ th.zoom - 1 - th.row>>]
           IN  /\ th.pc = "row"
               /\ view' = [view EXCEPT !.th[t].pc = "leaving",
                                       !.th[t].status = IF Len(blob) <= 0 THEN 404 ELSE 200,
                                       !.th[t].tile_data = blob]
    /\ UNCHANGED <<coord, norm, store, iter, pat, xtr, samp, rsz, img, crt, dl>>

\* Leaving the block destroys guard, which finalizes the statement, ...
Finalize ==
    /\ \E t \in ViewWorkers :
           /\ view.th[t].pc = "leaving"
           /\ view' = [view EXCEPT !.th[t].pc = "unlocking", !.th[t].stmt = "none"]
    /\ UNCHANGED <<coord, norm, store, iter, pat, xtr, samp, rsz, img, crt, dl>>

\* ... and then lock, which unlocks db_mutex; the response is sent.
Unlock ==
    /\ \E t \in ViewWorkers :
           /\ view.th[t].pc = "unlocking"
           /\ view' = [view EXCEPT !.mutex = 0, !.th[t].pc = "idle"]
    /\ UNCHANGED <<coord, norm, store, iter, pat, xtr, samp, rsz, img, crt, dl>>

ViewNext ==
    StartupQuery \/ Listen \/ Receive \/ Lock \/ Prepare \/ Step \/ Read \/ Finalize \/ Unlock

(***************************************************************************)
(* mbtiles_creator.  crt.files are the .jpg files of the input directory   *)
(* in the order read_directory lists them, each with the numbers atoi      *)
(* reads from its path; crt.db is the tiles table; crt.stmt is the insert  *)
(* statement: whether a failed step left it halted, and its bound values.  *)
(* crt.imported[i] says that insertTile returned true for file i, and      *)
(* crt.stored[i] is the row that call wrote.                               *)
(***************************************************************************)
MaxFiles == 2

CrtIdle ==
    [pc |-> "idle", augment_mode |-> FALSE, files |-> <<>>, index |-> 1, db |-> {},
     stmt |-> [halted |-> FALSE, z |-> 0, x |-> 0, y_mbtiles |-> 0],
     total_tiles_count |-> 0, total_tiles_processed |-> 0, imported |-> <<>>,
     stored |-> <<>>, progress_thread |-> "none", result |-> FALSE]

\* countTotalTiles(inputDir, zoom): the .jpg files below the directories
\* whose name atoi reads as zoom.
countTotalTiles(files, zoom) ==
    Cardinality({i \in 1..Len(files) : files[i].z = zoom})

\* checkAndRemoveTile: the table it leaves and its result.  done says
\* whether prepare succeeded and the step returned SQLITE_DONE.
checkAndRemoveTile(db, z, x, y, done) ==
    LET y_mbtiles == 2 ^ z - 1 - y
    IN  IF ~done THEN [ok |-> FALSE, db |-> db]
        ELSE [ok |-> TRUE,
              db |-> {r \in db : ~(r.zoom_level = z /\ r.tile_column = x
                                      /\ r.tile_row = y_mbtiles)}]

\* insertTile.  On a halted statement the four binds return SQLITE_MISUSE
\* and leave the values of the failed call bound, and sqlite3_step resets
\* the statement and runs it with them; the bound blob then points into the
\* vector of the failed call, which no longer exists, and held is what is
\* read there.  The step fails on a row the unique index already holds, or
\* when sqlite reports an error of its own (stepped is false); only a step
\* that returned SQLITE_DONE is followed by sqlite3_reset.
insertTile(stmt, db, z, x, y, data, stepped, held) ==
    LET bound == IF stmt.halted
                 THEN [zoom_level |-> stmt.z, tile_column |-> stmt.x,
                       tile_row |-> stmt.y_mbtiles, tile_data |-> held]
                 ELSE [zoom_level |-> z, tile_column |-> x,
                       tile_row |-> 2 ^ z - 1 - y, tile_data |-> data]
        constraint == \E r \in db : /\ r.zoom_level = bound.zoom_level
                                     /\ r.tile_column = bound.tile_column
                                     /\ r.tile_row = bound.tile_row
        values == [z |-> bound.zoom_level, x |-> bound.tile_column,
                   y_mbtiles |-> bound.tile_row]
    IN  IF ~stepped \/ constraint
        THEN [ok |-> FALSE, db |-> db, row |-> NoRow,
              stmt |-> values @@ [halted |-> TRUE]]
        ELSE [ok |-> TRUE, db |-> db \cup {bound}, row |-> bound,
              stmt |-> values @@ [halted |-> FALSE]]

\* processTiles up to its loops: the count of the tiles of every zoom from
\* min_zoom to max_zoom, the return when there is none, the start of the
\* progress thread.
StartProcessing ==
    /\ crt.pc = "count"
    /\ LET RECURSIVE total(_)
           total(zoom) == IF zoom < 0 THEN 0
                          ELSE total(zoom - 1)
                                 + (IF countTotalTiles(crt.files, zoom) > 0
                                    THEN countTotalTiles(crt.files, zoom) ELSE 0)
           count == total(30)
       IN  crt' = IF count <= 0
                  THEN [crt EXCEPT !.pc = "returned", !.result = FALSE]
                  ELSE [crt EXCEPT !.pc = "visit", !.total_tiles_count = count,
                                   !.progress_thread = "test"]
    /\ UNCHANGED <<coord, norm, store, iter, pat, xtr, samp, rsz, img, view, dl>>

\* One turn of the innermost loop for a .jpg file: the file is opened and
\* read, in augment mode its row is deleted, the tile is inserted and the
\* counter is advanced; each failure continues with the next file.  After
\* the last file the thread goes on to progress_thread.join().
VisitFile ==
    /\ crt.pc = "visit" /\ crt.index <= Len(crt.files)
    /\ \E done \in BOOLEAN : \E stepped \in BOOLEAN :
       \E held \in {crt.files[i].data : i \in 1..Len(crt.files)} :
           LET f == crt.files[crt.index]
               removed == IF crt.augment_mode
                          THEN checkAndRemoveTile(crt.db, f.z, f.x, f.y, done)
                          ELSE [ok |-> TRUE, db |-> crt.db]
               inserted == insertTile(crt.stmt, removed.db, f.z, f.x, f.y, f.data,
                                      stepped, held)
               visited == [crt EXCEPT !.index = crt.index + 1,
                                      !.pc = IF crt.index = Len(crt.files)
                                             THEN "join" ELSE "visit"]
           IN  crt' = IF ~f.opens THEN visited
                      ELSE IF ~removed.ok THEN visited
                      ELSE IF ~inserted.ok
                      THEN [visited EXCEPT !.db = removed.db, !.stmt = inserted.stmt]
                      ELSE [visited EXCEPT
                               !.db = inserted.db, !.stmt = inserted.stmt,
                               !.imported[crt.index] = TRUE,
                               !.stored[crt.index] = inserted.row,
                               !.total_tiles_processed = crt.total_tiles_processed + 1]
    /\ UNCHANGED <<coord, norm, store, iter, pat, xtr, samp, rsz, img, view, dl>>

\* displayProgress: the test of its loop, and one turn of it (the sleep
\* and the report).
DisplayProgress ==
    /\ \/ /\ crt.progress_thread = "test"
          /\ crt' = [crt EXCEPT !.progress_thread =
                         IF crt.total_tiles_processed < crt.total_tiles_count
                         THEN "report" ELSE "done"]
       \/ /\ crt.progress_thread = "report"
          /\ crt' = [crt EXCEPT !.progress_thread = "test"]
    /\ UNCHANGED <<coord, norm, store, iter, pat, xtr, samp, rsz, img, view, dl>>

\* progress_thread.join() and the return of processTiles.
Join ==
    /\ crt.pc = "join" /\ crt.progress_thread = "done"
    /\ crt' = [crt EXCEPT !.pc = "returned", !.result = TRUE]
    /\ UNCHANGED <<coord, norm, store, iter, pat, xtr, samp, rsz, img, view, dl>>

CrtNext == StartProcessing \/ VisitFile \/ DisplayProgress \/ Join

(***************************************************************************)
(* The tile downloader: the download threads, each with its ThreadStats,   *)
(* and the progress thread.  dl.statsMutex and dl.coutMutex are the        *)
(* threads that hold the two mutexes: 0 for none, w for download thread w  *)
(* and MaxDownloadThreads + 1 for the progress thread.  A thread whose pc  *)
(* names a field is at the statement that accesses that field.             *)
(***************************************************************************)
MaxDownloadThreads == 2

MaxThreadTiles == 2

DlIdle ==
    [pc |-> "idle", statsMutex |-> 0, coutMutex |-> 0, activeThreads |-> 0,
     worker |-> [w \in 1..MaxDownloadThreads |->
                    [pc |-> "idle", tiles |-> 0, downloadSize |-> 0,
                     stats |-> [downloadCount |-> 0, downloadSize |-> 0]]],
     progress |-> [pc |-> "idle", i |-> 1, currentCount |-> 0, currentSize |-> 0]]

\* downloadWorker up to its loop: activeThreads++ and curl_easy_init, which
\* may fail.
WorkerStart ==
    /\ \E w \in 1..MaxDownloadThreads : \E curl \in BOOLEAN :
           /\ dl.worker[w].pc = "start"
           /\ ~curl => dl.coutMutex = 0
           /\ dl' = [dl EXCEPT !.worker[w].pc = IF curl THEN "loop" ELSE "done",
                               !.activeThreads = IF curl THEN dl.activeThreads + 1
                                                 ELSE dl.activeThreads]
    /\ UNCHANGED <<coord, norm, store, iter, pat, xtr, samp, rsz, img, view, crt>>

\* One tile of the loop up to outputFile.close(): a failed download is
\* reported under coutMutex and the loop continues.
Download ==
    /\ \E w \in 1..MaxDownloadThreads : \E ok \in BOOLEAN : \E size \in 1..2 :
           /\ dl.worker[w].pc = "loop" /\ dl.worker[w].tiles > 0
           /\ ~ok => dl.coutMutex = 0
           /\ dl' = [dl EXCEPT !.worker[w].pc = IF ok THEN "lock" ELSE "loop",
                               !.worker[w].downloadSize = IF ok THEN size ELSE 0,
                               !.worker[w].tiles = IF ok THEN dl.worker[w].tiles
                                                   ELSE dl.worker[w].tiles - 1]
    /\ UNCHANGED <<coord, norm, store, iter, pat, xtr, samp, rsz, img, view, crt>>

\* std::lock_guard<std::mutex> lock(statsMutex) of the update block.
LockStats ==
    /\ \E w \in 1..MaxDownloadThreads :
           /\ dl.worker[w].pc = "lock" /\ dl.statsMutex = 0
           /\ dl' = [dl EXCEPT !.statsMutex = w, !.worker[w].pc = "downloadCount"]
    /\ UNCHANGED <<coord, norm, store, iter, pat, xtr, samp, rsz, img, view, crt>>

\* stats.downloadCount++
WriteCount ==
    /\ \E w \in 1..MaxDownloadThreads :
           /\ dl.worker[w].pc = "downloadCount"
           /\ dl' = [dl EXCEPT !.worker[w].pc = "downloadSize",
                               !.worker[w].stats.downloadCount =
                                   dl.worker[w].stats.downloadCount + 1]
    /\ UNCHANGED <<coord, norm, store, iter, pat, xtr, samp, rsz, img, view, crt>>

\* stats.downloadSize += downloadSize
WriteSize ==
    /\ \E w \in 1..MaxDownloadThreads :
           /\ dl.worker[w].pc = "downloadSize"
           /\ dl' = [dl EXCEPT !.worker[w].pc = "unlock",
                               !.worker[w].stats.downloadSize =
                                   dl.worker[w].stats.downloadSize + dl.worker[w].downloadSize]
    /\ UNCHANGED <<coord, norm, store, iter, pat, xtr, samp, rsz, img, view, crt>>

\* The end of the update block and of the iteration.
UnlockStats ==
    /\ \E w \in 1..MaxDownloadThreads :
           /\ dl.worker[w].pc = "unlock"
           /\ dl' = [dl EXCEPT !.statsMutex = 0, !.worker[w].pc = "loop",
                               !.worker[w].tiles = dl.worker[w].tiles - 1]
    /\ UNCHANGED <<coord, norm, store, iter, pat, xtr, samp, rsz, img, view, crt>>

\* After the last tile: curl_easy_cleanup and activeThreads--.
WorkerExit ==
    /\ \E w \in 1..MaxDownloadThreads :
           /\ dl.worker[w].pc = "loop" /\ dl.worker[w].tiles = 0
           /\ dl' = [dl EXCEPT !.worker[w].pc = "done",
                               !.activeThreads = dl.activeThreads - 1]
    /\ UNCHANGED <<coord, norm, store, iter, pat, xtr, samp, rsz, img, view, crt>>

\* displayProgress: while (activeThreads > 0), after the sleep.
ProgressCheck ==
    /\ dl.progress.pc = "check"
    /\ dl' = [dl EXCEPT !.progress.pc = IF dl.activeThreads > 0 THEN "display" ELSE "done"]
    /\ UNCHANGED <<coord, norm, store, iter, pat, xtr, samp, rsz, img, view, crt>>

\* lock(coutMutex), then the block that reads successCount and
\* skippedCount under statsLock(statsMutex) and releases it again.
ProgressBegin ==
    /\ dl.progress.pc = "display" /\ dl.coutMutex = 0 /\ dl.statsMutex = 0
    /\ dl' = [dl EXCEPT !.coutMutex = MaxDownloadThreads + 1,
                        !.progress.pc = "downloadCount", !.progress.i = 1]
    /\ UNCHANGED <<coord, norm, store, iter, pat, xtr, samp, rsz, img, view, crt>>

\* int currentCount = threadStats[i].downloadCount
ReadCount ==
    /\ dl.progress.pc = "downloadCount"
    /\ dl' = [dl EXCEPT !.progress.pc = "downloadSize",
                        !.progress.currentCount =
                            dl.worker[dl.progress.i].stats.downloadCount]
    /\ UNCHANGED <<coord, norm, store, iter, pat, xtr, samp, rsz, img, view, crt>>

\* long long currentSize = threadStats[i].downloadSize, the rest of the
\* loop body and, after the last thread, the end of the block under
\* coutMutex.
ReadSize ==
    /\ dl.progress.pc = "downloadSize"
    /\ dl' = [dl EXCEPT !.progress.currentSize =
                            dl.worker[dl.progress.i].stats.downloadSize,
                        !.progress.i = IF dl.progress.i < MaxDownloadThreads
                                       THEN dl.progress.i + 1 ELSE 1,
                        !.progress.pc = IF dl.progress.i < MaxDownloadThreads
                                        THEN "downloadCount" ELSE "check",
                        !.coutMutex = IF dl.progress.i < MaxDownloadThreads
                                      THEN dl.coutMutex ELSE 0]
    /\ UNCHANGED <<coord, norm, store, iter, pat, xtr, samp, rsz, img, view, crt>>

DlNext ==
    \/ WorkerStart \/ Download \/ LockStats \/ WriteCount \/ WriteSize \/ UnlockStats
    \/ WorkerExit \/ ProgressCheck \/ ProgressBegin \/ ReadCount \/ ReadSize

CoordNext == CallRowTransform \/ CallInverse \/ CallTileBounds

CoordInit ==
    /\ coord \in CoordInputs /\ norm = NormIdle /\ store = StoreIdle /\ iter = IterIdle
    /\ pat = PatIdle /\ xtr = XtrIdle /\ samp = SampIdle /\ rsz = RszIdle
    /\ img = ImgIdle /\ view = ViewIdle /\ crt = CrtIdle /\ dl = DlIdle

SpecCoord == CoordInit /\ [][CoordNext]_vars

NormInit ==
    /\ norm \in NormInputs /\ coord = CoordIdle /\ store = StoreIdle /\ iter = IterIdle
    /\ pat = PatIdle /\ xtr = XtrIdle /\ samp = SampIdle /\ rsz = RszIdle
    /\ img = ImgIdle /\ view = ViewIdle /\ crt = CrtIdle /\ dl = DlIdle

SpecNorm == NormInit /\ [][NormNext]_vars

MetaInit ==
    /\ store \in {FreshStore, CreatorStore(<<>>)}
    /\ coord = CoordIdle /\ norm = NormIdle /\ iter = IterIdle
    /\ pat = PatIdle /\ xtr = XtrIdle /\ samp = SampIdle /\ rsz = RszIdle
    /\ img = ImgIdle /\ view = ViewIdle /\ crt = CrtIdle /\ dl = DlIdle

SpecMeta == MetaInit /\ [][MetaNext]_vars

IterInit ==
    /\ store \in IterStores /\ coord = CoordIdle /\ norm = NormIdle /\ iter = IterIdle
    /\ pat = PatIdle /\ xtr = XtrIdle /\ samp = SampIdle /\ rsz = RszIdle
    /\ img = ImgIdle /\ view = ViewIdle /\ crt = CrtIdle /\ dl = DlIdle

SpecIter == IterInit /\ [][IterNext]_vars

PatInit ==
    /\ pat \in PatInputs
    /\ coord = CoordIdle /\ norm = NormIdle /\ store = StoreIdle /\ iter = IterIdle
    /\ xtr = XtrIdle /\ samp = SampIdle /\ rsz = RszIdle
    /\ img = ImgIdle /\ view = ViewIdle /\ crt = CrtIdle /\ dl = DlIdle

SpecPattern == PatInit /\ [][PatNext]_vars

ExtractInit ==
    /\ store \in ExtractStores
    /\ xtr \in {[XtrIdle EXCEPT !.pc = "ready", !.pattern = p] : p \in ExtractPatterns}
    /\ coord = CoordIdle /\ norm = NormIdle /\ iter = IterIdle
    /\ pat = PatIdle /\ samp = SampIdle /\ rsz = RszIdle
    /\ img = ImgIdle /\ view = ViewIdle /\ crt = CrtIdle /\ dl = DlIdle

SpecExtract == ExtractInit /\ [][ExtractNext]_vars

SampInit ==
    /\ samp \in SampInputs
    /\ coord = CoordIdle /\ norm = NormIdle /\ store = StoreIdle /\ iter = IterIdle
    /\ pat = PatIdle /\ xtr = XtrIdle /\ rsz = RszIdle
    /\ img = ImgIdle /\ view = ViewIdle /\ crt = CrtIdle /\ dl = DlIdle

SpecResample == SampInit /\ [][SampNext]_vars

RszInit ==
    /\ rsz \in RszInputs
    /\ coord = CoordIdle /\ norm = NormIdle /\ store = StoreIdle /\ iter = IterIdle
    /\ pat = PatIdle /\ xtr = XtrIdle /\ samp = SampIdle
    /\ img = ImgIdle /\ view = ViewIdle /\ crt = CrtIdle /\ dl = DlIdle

SpecResize == RszInit /\ [][RszNext]_vars

ImgInit ==
    /\ img = [ImgIdle EXCEPT !.pc = "new"]
    /\ coord = CoordIdle /\ norm = NormIdle /\ store = StoreIdle /\ iter = IterIdle
    /\ pat = PatIdle /\ xtr = XtrIdle /\ samp = SampIdle /\ rsz = RszIdle
    /\ view = ViewIdle /\ crt = CrtIdle /\ dl = DlIdle

SpecImage == ImgInit /\ [][ImgNext]_vars

ViewInit ==
    /\ view = [ViewIdle EXCEPT !.main = "start"]
    /\ coord = CoordIdle /\ norm = NormIdle /\ store = StoreIdle /\ iter = IterIdle
    /\ pat = PatIdle /\ xtr = XtrIdle /\ samp = SampIdle /\ rsz = RszIdle
    /\ img = ImgIdle /\ crt = CrtIdle /\ dl = DlIdle

SpecViewer == ViewInit /\ [][ViewNext]_vars

\* main before processTiles: the input directory holds up to MaxFiles .jpg
\* files of column 0, file i with the content <<i>>; the database is new,
\* or in augment mode an existing one; the insert statement is prepared.
CrtInit ==
    /\ crt \in {[CrtIdle EXCEPT !.pc = "count", !.augment_mode = augment_mode,
                                !.files = [i \in 1..n |-> [z |-> a[i][1], x |-> 0,
                                                           y |-> a[i][2], data |-> <<i>>,
                                                           opens |-> a[i][3]]],
                                !.imported = [i \in 1..n |-> FALSE],
                                !.stored = [i \in 1..n |-> NoRow],
                                !.db = IF augment_mode THEN existing ELSE {}] :
                   augment_mode \in BOOLEAN, n \in 0..MaxFiles,
                   a \in [1..MaxFiles -> {1, 30} \X {0, 1} \X BOOLEAN],
                   existing \in {{}, {[zoom_level |-> 1, tile_column |-> 0,
                                       tile_row |-> 1, tile_data |-> <<0>>]}}}
    /\ coord = CoordIdle /\ norm = NormIdle /\ store = StoreIdle /\ iter = IterIdle
    /\ pat = PatIdle /\ xtr = XtrIdle /\ samp = SampIdle /\ rsz = RszIdle
    /\ img = ImgIdle /\ view = ViewIdle /\ dl = DlIdle

SpecCreator == CrtInit /\ [][CrtNext]_vars

\* Every thread that can take a step takes one in the end.
SpecCreatorFair ==
    SpecCreator /\ WF_vars(StartProcessing) /\ WF_vars(VisitFile)
                /\ WF_vars(DisplayProgress) /\ WF_vars(Join)

\* main after it created the download threads and the progress thread.
DlInit ==
    /\ dl \in {[DlIdle EXCEPT !.pc = "running", !.progress.pc = "check",
                              !.worker = [w \in 1..MaxDownloadThreads |->
                                  [DlIdle.worker[w] EXCEPT !.pc = "start", !.tiles = n[w]]]] :
                  n \in [1..MaxDownloadThreads -> 0..MaxThreadTiles]}
    /\ coord = CoordIdle /\ norm = NormIdle /\ store = StoreIdle /\ iter = IterIdle
    /\ pat = PatIdle /\ xtr = XtrIdle /\ samp = SampIdle /\ rsz = RszIdle
    /\ img = ImgIdle /\ view = ViewIdle /\ crt = CrtIdle

SpecDownload == DlInit /\ [][DlNext]_vars

(***************************************************************************)
(* The row transform as arithmetic: (1 << z) - 1 - row over the integers,  *)
(* for 0 <= z <= 62 and an int row.  A row is a non-negative int, so the   *)
(* value fits when it lies in 0..INT_MAX.                                  *)
(***************************************************************************)
ExactFits(row, z) ==
    \/ z \in 0..30 /\ row <= 2 ^ z - 1
    \/ z = 31 /\ row >= 0

ExactValue(row, z) == IF z = 31 THEN INT_MAX - row ELSE 2 ^ z - 1 - row

InRowDomain(row, z) == z \in 0..30 /\ row >= 0 /\ row < 2 ^ z

\* C1: for every zoom 0..30 and row 0 <= r < 2^z, neither transform throws
\* and applying one after the other gives r back.
C1_RowRoundTrip ==
    InRowDomain(coord.row, coord.z) =>
        /\ coord.pc \in {"called", "roundtrip"} => ~coord.r1.throws
        /\ coord.pc = "roundtrip" => ~coord.r2.throws /\ coord.r2.value = coord.row

C1_Witness ==
    /\ coord.pc = "roundtrip" /\ coord.z = 30 /\ coord.row = 2 ^ 30 - 1
    /\ coord.fn = "xyz_to_tms_y" /\ coord.r1.value = 0 /\ coord.r2.value = coord.row

\* C2: a row transform fails whenever zoom >= 63 or (1 << zoom) - 1 - row does
\* not fit, and otherwise returns exactly (1 << zoom) - 1 - row.
C2_FailsOrExact ==
    coord.pc = "called" =>
        IF coord.z >= 63 \/ ~ExactFits(coord.row, coord.z)
        THEN coord.r1.throws
        ELSE ~coord.r1.throws /\ coord.r1.value = ExactValue(coord.row, coord.z)

\* C3: for 0 <= x, y < 2^zoom the bounds of a tile are the latitudes of the
\* row edges y+1 and y and the longitudes of the column edges x and x+1, so
\* latMin < latMax and lonMin < lonMax.
C3_BoundsOrdered ==
    coord.pc = "bounds" =>
        LET edge(x, y) == tile2latlonOfTile([zoom |-> coord.z, x |-> x, y |-> y])
        IN  /\ coord.b.latMax = edge(coord.x, coord.y)[1]
            /\ coord.b.latMin = edge(coord.x, coord.y + 1)[1]
            /\ coord.b.lonMin = edge(coord.x, coord.y)[2]
            /\ coord.b.lonMax = edge(coord.x + 1, coord.y)[2]
            /\ coord.b.latMin < coord.b.latMax
            /\ coord.b.lonMin < coord.b.lonMax

\* C10: the token derived from a format string is lower-case, has no leading
\* or trailing whitespace and no leading dot, is never jpeg, and normalising
\* it again returns it unchanged.
C10_TokenNormalised ==
    LET t == norm.out1
    IN  /\ norm.pc \in {"once", "twice"} =>
              /\ \A i \in 1..Len(t) : ToLower(t[i]) = t[i]
              /\ t # <<>> => ~IsSpace(t[1]) /\ ~IsSpace(t[Len(t)]) /\ t[1] # "."
              /\ t # <<"j", "p", "e", "g">>
        /\ norm.pc = "twice" => norm.out2 = norm.out1

\* C4: an iterator over a tiles table of N rows yields N tiles, one per row
\* in order, and then end; once next() has returned end, every later next()
\* on the same iterator returns end.
C4_SinglePass ==
    iter.pc = "open" =>
        /\ (iter.kind = "tile" /\ ~iter.ended) =>
               /\ iter.yielded <= Len(store.tiles)
               /\ ~iter.threw =>
                      /\ iter.tile.zoom = store.tiles[iter.yielded].zoom_level
                      /\ iter.tile.x = store.tiles[iter.yielded].tile_column
                      /\ iter.tile.tms_y = store.tiles[iter.yielded].tile_row
                      /\ iter.tile.data = store.tiles[iter.yielded].tile_data
        /\ (iter.kind = "end" /\ ~iter.ended /\ ~iter.threw) =>
               iter.yielded = Len(store.tiles)
        /\ iter.ended => iter.kind = "end"

\* C5: every tile next() yields has y = (2^zoom - 1) - tms_y with
\* 0 <= y < 2^zoom, and a stored row with no such y (zoom outside 0..62 or
\* tile_row outside 0..2^zoom - 1) makes next() fail.
C5_YieldsValidRow ==
    (iter.pc = "open" /\ iter.rowRead) =>
        LET z == iter.row.zoom_level
            tms_y == iter.row.tile_row
            valid == z \in 0..62 /\ tms_y >= 0 /\ ExactFits(tms_y, z)
        IN  IF valid
            THEN /\ iter.kind = "tile"
                 /\ iter.tile.tms_y = tms_y
                 /\ iter.tile.y = ExactValue(tms_y, z)
                 /\ iter.tile.y >= 0
            ELSE iter.kind = "throw"

\* C6: setMetadata(entries, overwrite_existing = false) with a key that is
\* already stored fails and leaves the metadata table exactly as it was.
C6_InsertOrFail ==
    (/\ store.call.kind = "set"
     /\ ~store.call.overwrite
     /\ \E k \in DOMAIN store.call.entries : HasName(store.call.before, k)) =>
        /\ store.call.throws
        /\ store.metadata = store.call.before

\* C7: the metadata table holds at most one row per name.
C7_OneRowPerName ==
    \A i, j \in 1..Len(store.metadata) :
        store.metadata[i].name = store.metadata[j].name => i = j

\* C8: setMetadata(entries, overwrite_existing = true) succeeds; afterwards
\* metadata() maps every key of entries to its new value and every other key
\* to the value it had, and no key is removed.
C8_Upsert ==
    (store.call.kind = "set" /\ store.call.overwrite /\ DOMAIN store.call.entries # {}) =>
        LET old == IF store.call.schemaBefore = "none" THEN <<>>
                   ELSE metadata(store.call.schemaBefore, store.call.before).map
            new == metadata(store.schema, store.metadata)
        IN  /\ ~store.call.throws
            /\ ~new.throws
            /\ DOMAIN new.map = DOMAIN old \cup DOMAIN store.call.entries
            /\ \A k \in DOMAIN store.call.entries : new.map[k] = store.call.entries[k]
            /\ \A k \in DOMAIN old \ DOMAIN store.call.entries : new.map[k] = old[k]

\* The extension read off the first bytes of a tile: png, jpg, webp, else bin.
SniffedToken(bytes) ==
    IF Len(bytes) >= 8 /\ SubSeq(bytes, 1, 4) = <<137, 80, 78, 71>> THEN <<"p", "n", "g">>
    ELSE IF Len(bytes) >= 8 /\ SubSeq(bytes, 1, 3) = <<255, 216, 255>> THEN <<"j", "p", "g">>
    ELSE IF /\ Len(bytes) >= 12
            /\ SubSeq(bytes, 1, 4) = <<82, 73, 70, 70>>
            /\ SubSeq(bytes, 9, 12) = <<87, 69, 66, 80>>
    THEN <<"w", "e", "b", "p">>
    ELSE <<"b", "i", "n">>

\* C9: the extension of every tile an iterator yields is the normalised
\* format value read when the iterator was created whenever that token is
\* not empty, whatever the tile's bytes; otherwise it is the extension
\* sniffed from the tile's bytes.
C9_ExtensionPrecedence ==
    (iter.pc = "open" /\ iter.kind = "tile") =>
        LET token == normalize_extension_token(iter.formatRead)
        IN  /\ iter.it.metadata_ext = token
            /\ iter.tile.extension =
                   IF token # <<>> THEN token ELSE SniffedToken(iter.tile.data)

\* A jpg-format archive yields a png tile as jpg after format was rewritten.
C9_Witness ==
    /\ iter.pc = "open" /\ iter.kind = "tile"
    /\ iter.formatRead = TxtPaddedJpeg
    /\ iter.tile.data = PngBlob
    /\ iter.tile.extension = TxtJpg
    /\ FormatValue(store.schema, store.metadata) = TxtPng

(***************************************************************************)
(* Decimal text read back as a number, so that an expansion is compared    *)
(* with the coordinate it stands for and not with another formatting.      *)
(***************************************************************************)
IsDigits(text) ==
    \A k \in 1..Len(text) : text[k] \in {"0", "1", "2", "3", "4", "5", "6", "7", "8", "9"}

RECURSIVE DecimalValue(_)
DecimalValue(text) ==
    IF text = <<>> THEN 0
    ELSE 10 * DecimalValue(SubSeq(text, 1, Len(text) - 1))
         + (CHOOSE d \in 0..9 :
                <<"0", "1", "2", "3", "4", "5", "6", "7", "8", "9">>[d + 1] = text[Len(text)])

\* The number of decimal digits of a value in 0..999999.
DecimalWidth(v) == CHOOSE n \in 1..6 : v < 10 ^ n /\ (n = 1 \/ v >= 10 ^ (n - 1))

\* text[from..] starts with the decimal form of v: a minus sign when v < 0,
\* then the digits of |v| with no leading zero.  The position after it, or 0.
AfterDecimal(text, from, v) ==
    LET magnitude == IF v < 0 THEN -v ELSE v
        first == IF v < 0 THEN from + 1 ELSE from
        last == first + DecimalWidth(magnitude) - 1
    IN  IF /\ last <= Len(text)
           /\ v < 0 => text[from] = "-"
           /\ IsDigits(SubSeq(text, first, last))
           /\ DecimalValue(SubSeq(text, first, last)) = magnitude
        THEN last + 1 ELSE 0

\* C11: when every placeholder of the pattern is {z}, {x}, {y} or {ext},
\* format_pattern returns the pattern with each character outside a
\* placeholder copied and each placeholder replaced by the decimal zoom,
\* column or row or by the extension; "{z}/{x}/{y}.{ext}" for (5, 3, 10, png)
\* is "5/3/10.png".
C11_CopiesAndReplaces ==
    LET p == pat.pattern
        r == pat.r.path
        at(i, text) == i + Len(text) - 1 <= Len(p) /\ SubSeq(p, i, i + Len(text) - 1) = text
        RECURSIVE simple(_)
        simple(i) ==
            IF i > Len(p) THEN TRUE
            ELSE IF p[i] # "{" THEN simple(i + 1)
            ELSE IF at(i + 1, <<"z", "}">>) \/ at(i + 1, <<"x", "}">>) \/ at(i + 1, <<"y", "}">>)
            THEN simple(i + 3)
            ELSE at(i + 1, <<"e", "x", "t", "}">>) /\ simple(i + 5)
        RECURSIVE expands(_, _)
        expands(i, j) ==
            IF j = 0 THEN FALSE
            ELSE IF i > Len(p) THEN j = Len(r) + 1
            ELSE IF p[i] # "{" THEN j <= Len(r) /\ r[j] = p[i] /\ expands(i + 1, j + 1)
            ELSE IF at(i + 1, <<"z", "}">>) THEN expands(i + 3, AfterDecimal(r, j, pat.z))
            ELSE IF at(i + 1, <<"x", "}">>) THEN expands(i + 3, AfterDecimal(r, j, pat.x))
            ELSE IF at(i + 1, <<"y", "}">>) THEN expands(i + 3, AfterDecimal(r, j, pat.y))
            ELSE /\ j + Len(pat.extension) - 1 <= Len(r)
                 /\ SubSeq(r, j, j + Len(pat.extension) - 1) = pat.extension
                 /\ expands(i + 5, j + Len(pat.extension))
    IN  (pat.pc = "done" /\ simple(1)) =>
            /\ ~pat.r.throws
            /\ expands(1, 1)
            /\ (/\ <<pat.z, pat.x, pat.y>> = <<5, 3, 10>>
                /\ pat.extension = <<"p", "n", "g">>
                /\ p = <<"{", "z", "}", "/", "{", "x", "}", "/", "{", "y", "}", ".",
                         "{", "e", "x", "t", "}">>)
               => r = <<"5", "/", "3", "/", "1", "0", ".", "p", "n", "g">>

C11_Witness ==
    /\ pat.pc = "done" /\ <<pat.z, pat.x, pat.y>> = <<5, 3, 10>>
    /\ pat.pattern = <<"{", "z", "}", "/", "{", "x", "}", "/", "{", "y", "}", ".",
                       "{", "e", "x", "t", "}">>
    /\ pat.r.path = <<"5", "/", "3", "/", "1", "0", ".", "p", "n", "g">>

\* C12: a pattern that is one placeholder of N letters X expands a column
\* x >= 0 to x zero-padded to N digits - decimal digits that read back as x,
\* N of them or as many as x needs - and no other column of 0..127 expands
\* to the same text.
C12_ZeroPadded ==
    LET p == pat.pattern
        n == Len(p) - 2
    IN  (/\ pat.pc = "done" /\ pat.x >= 0 /\ n >= 1
         /\ p[1] = "{" /\ p[Len(p)] = "}" /\ \A k \in 2..(Len(p) - 1) : p[k] = "X") =>
            /\ ~pat.r.throws
            /\ IsDigits(pat.r.path)
            /\ DecimalValue(pat.r.path) = pat.x
            /\ Len(pat.r.path) = (IF DecimalWidth(pat.x) > n THEN DecimalWidth(pat.x) ELSE n)
            /\ \A other \in 0..127 :
                   other # pat.x =>
                       format_pattern(pat.z, other, pat.y, p, pat.extension).path # pat.r.path

ExpectedFile(row) ==
    LET ext == TileExtension(read_metadata_format_extension(store.schema, store.metadata),
                             row.tile_data)
        rel == format_pattern(row.zoom_level, row.tile_column,
                              ExactValue(row.tile_row, row.zoom_level), xtr.pattern,
                              ext).path
        named == \E d \in 2..Len(rel) :
                     rel[d] = "." /\ rel[d - 1] # "/"
                                  /\ \A k \in d..Len(rel) : rel[k] # "/"
        joined == OutputRoot \o <<"/">> \o rel
    IN  IF named \/ ext = <<>> THEN joined ELSE joined \o <<".">> \o ext

\* C14: each tile the loop finishes has its bytes, unchanged, in the file
\* its row is owed, and when no step failed extract returns the number of
\* rows, every owed file exists and holds the bytes of the last row that is
\* owed that file (its own row's bytes when no other row shares the path).
C14_ExtractsEveryTile ==
    /\ (xtr.pc = "running" /\ xtr.handled > 0) =>
           /\ xtr.count = xtr.handled
           /\ xtr.path = ExpectedFile(xtr.row)
           /\ xtr.files[xtr.path] = xtr.row.tile_data
    /\ xtr.pc = "returned" =>
           /\ xtr.count = Len(store.tiles)
           /\ \A i \in 1..Len(store.tiles) :
                  LET same == {j \in 1..Len(store.tiles) :
                                  ExpectedFile(store.tiles[j]) = ExpectedFile(store.tiles[i])}
                      last == CHOOSE j \in same : \A other \in same : other <= j
                  IN  /\ ExpectedFile(store.tiles[i]) \in DOMAIN xtr.files
                      /\ xtr.files[ExpectedFile(store.tiles[i])] = store.tiles[last].tile_data
           /\ DOMAIN xtr.files = {ExpectedFile(store.tiles[i]) : i \in 1..Len(store.tiles)}

C14_Witness ==
    /\ xtr.pc = "returned" /\ xtr.count = 2
    /\ xtr.pattern = <<"{", "z", "}", "/", "{", "x", "}", "/", "{", "y", "}">>
    /\ xtr.row.tile_row = 1 /\ xtr.tile.y = 0
    /\ xtr.path = <<"o", "u", "t", "/", "1", "/", "0", "/", "0", ".", "j", "p", "g">>
    /\ xtr.files[xtr.path] = JpgBlob

\* C15: when a step fails at the k-th tile extract throws there (k - 1
\* tiles are finished and no further step can be taken) and every file that
\* was in the output tree before that tile is still there with its bytes.
C15_EarlierFilesUnchanged ==
    (xtr.pc = "threw" /\ xtr.failed # "root") =>
        /\ xtr.handled = xtr.count + 1
        /\ ~ENABLED ExtractNext
        /\ \A p \in DOMAIN xtr.filesBefore :
               p \in DOMAIN xtr.files /\ xtr.files[p] = xtr.filesBefore[p]

\* C15 amended: the same, but for the file of the k-th tile itself: every
\* file at another path is unchanged, and a file at the k-th tile's path is
\* unchanged too unless the step that failed is the write.
C15_OtherFilesUnchanged ==
    (xtr.pc = "threw" /\ xtr.failed # "root") =>
        /\ xtr.handled = xtr.count + 1
        /\ ~ENABLED ExtractNext
        /\ \A p \in DOMAIN xtr.filesBefore :
               (p # xtr.path \/ xtr.failed # "write") =>
                   p \in DOMAIN xtr.files /\ xtr.files[p] = xtr.filesBefore[p]

C15_Witness ==
    /\ xtr.pc = "threw" /\ xtr.failed = "write" /\ xtr.handled = 2 /\ xtr.count = 1
    /\ DOMAIN xtr.filesBefore # {} /\ xtr.path \notin DOMAIN xtr.filesBefore
    /\ \A p \in DOMAIN xtr.filesBefore : xtr.files[p] = xtr.filesBefore[p]

\* C16: downsample_level and the decrease_zoom tool produce the parent
\* (X, Y) exactly when its four children are all in the source level and
\* decode to images of one size; other blocks give no parent.
C16_ParentIffFourChildren ==
    (samp.pc = "done" /\ samp.fn \in {"downsample_level", "decrease_zoom"}) =>
        \A X \in 0..MaxSourceColumn, Y \in 0..1 :
            LET children == {<<2 * X + dx, 2 * Y + dy>> : dx \in 0..1, dy \in 0..1}
            IN  <<X, Y>> \in DOMAIN samp.result <=>
                    /\ children \subseteq DOMAIN samp.source
                    /\ \A c \in children : samp.source[c].width > 0
                    /\ \A c, e \in children : samp.source[c] = samp.source[e]

\* C17: upsample_level on a level whose images are all non-empty gives, for
\* every source tile (x, y), the four children (2x, 2y), (2x+1, 2y),
\* (2x, 2y+1), (2x+1, 2y+1) with the tile's width and height, and nothing
\* else, so four times as many tiles as the source has.
C17_FourChildrenEach ==
    (/\ samp.pc = "done" /\ samp.fn = "upsample_level"
     /\ \A k \in DOMAIN samp.source : samp.source[k].width > 0) =>
        /\ \A k \in DOMAIN samp.source : \A dx \in 0..1, dy \in 0..1 :
               /\ <<2 * k[1] + dx, 2 * k[2] + dy>> \in DOMAIN samp.result
               /\ samp.result[<<2 * k[1] + dx, 2 * k[2] + dy>>] = samp.source[k]
        /\ \A c \in DOMAIN samp.result :
               \E k \in DOMAIN samp.source : \E dx \in 0..1, dy \in 0..1 :
                   c = <<2 * k[1] + dx, 2 * k[2] + dy>>
        /\ Cardinality(DOMAIN samp.result) = 4 * Cardinality(DOMAIN samp.source)

C17_Witness ==
    /\ samp.pc = "done" /\ samp.fn = "upsample_level"
    /\ DOMAIN samp.source = {<<0, 0>>, <<1, 0>>, <<1, 1>>}
    /\ \A k \in DOMAIN samp.source : samp.source[k].width > 0
    /\ Cardinality(DOMAIN samp.result) = 12
    /\ samp.result[<<3, 3>>] = samp.source[<<1, 1>>]

\* C18: when the first level to generate has neither the level above it
\* nor the level below it in the archive (nothing is materialized yet), the
\* call fails as unable to generate the level and holds no tiles for it.
C18_UnresolvableFails ==
    LET level == rsz.generated_levels[1]
    IN  (/\ rsz.pc \in {"generated", "threw"} /\ rsz.failed \in {"none", "unable to generate"}
         /\ rsz.generated_levels # <<>>
         /\ level + 1 \notin DOMAIN rsz.db /\ level - 1 \notin DOMAIN rsz.db) =>
            /\ rsz.pc = "threw"
            /\ level \notin DOMAIN rsz.tile_cache

\* C19: after the split, copy_levels holds exactly the requested levels the
\* archive has and generated_levels exactly the others, no level is in both
\* and none is twice in a list (the requested levels being the target
\* levels, or the level below the lowest one when none is given).
C19_SplitPartitions ==
    LET set(s) == {s[i] : i \in 1..Len(s)}
        requested == IF rsz.target_levels = <<>>
                     THEN {l - 1 : l \in {m \in DOMAIN rsz.db : \A o \in DOMAIN rsz.db : m <= o}}
                     ELSE set(rsz.target_levels)
    IN  rsz.pc = "planned" =>
            /\ set(rsz.copy_levels) = requested \cap DOMAIN rsz.db
            /\ set(rsz.generated_levels) = requested \ DOMAIN rsz.db
            /\ set(rsz.copy_levels) \cap set(rsz.generated_levels) = {}
            /\ set(rsz.copy_levels) \cup set(rsz.generated_levels) = requested
            /\ Len(rsz.copy_levels) = Cardinality(set(rsz.copy_levels))
            /\ Len(rsz.generated_levels) = Cardinality(set(rsz.generated_levels))
            /\ Len(rsz.requested_levels) = Cardinality(requested)

C19_Witness ==
    /\ rsz.pc = "planned" /\ rsz.target_levels = <<2, 2>> /\ DOMAIN rsz.db = {1, 2}
    /\ rsz.copy_levels = <<2>> /\ rsz.generated_levels = <<>>

\* C20: the rows of a call become committed rows of the output archive all
\* at once, by the one COMMIT after the last insert; when an insert, a read
\* or a decode fails after the transaction began (or COMMIT itself fails)
\* the committed rows are those from before the call.
C20_AllOrNothing ==
    /\ rsz.pc = "done" =>
           /\ rsz.out.txn = "committed"
           /\ rsz.inserted = Len(rsz.rows)
           /\ rsz.out.committed = rsz.outBefore \cup {rsz.rows[i] : i \in 1..Len(rsz.rows)}
    /\ (rsz.pc = "threw" /\ rsz.failed \in {"insert", "read", "decode", "commit fails"}) =>
           /\ rsz.out.committed = rsz.outBefore
           /\ rsz.out.txn # "committed"
    /\ rsz.pc \in {"ready", "planned", "generated"} => rsz.out.committed = rsz.outBefore

C20_Witness ==
    /\ rsz.pc = "threw" /\ rsz.failed = "insert" /\ rsz.inserted = 2
    /\ rsz.out.pending = {rsz.rows[1], rsz.rows[2]}
    /\ rsz.out.committed = rsz.outBefore /\ rsz.outBefore = {<<1, 0, 0>>}

\* C28: every exit from setMetadata, by return or by exception, leaves the
\* connection with no open transaction, so that the next setMetadata call
\* can begin its own.
C28_NoOpenTransaction ==
    store.call.kind = "set" => store.autocommit

\* C25: within one resize_zoom_levels call each level's tile map is built at
\* most once and converted to grayscale at most once (generated levels only,
\* when the option is set), and an ensure_level_tiles invocation for a level
\* that an earlier call has put in tile_cache returns at once, whether the
\* level is the requested one or the source of another level.
C25_BuiltOnce ==
    rsz.pc \in {"generated", "done", "threw"} =>
        LET levels(t) == {t[i] : i \in 1..Len(t)}
            once(t) == \A i \in 1..Len(t) : \A j \in 1..Len(t) : t[i] = t[j] => i = j
        IN  /\ once(rsz.built)
            /\ once(rsz.grayed)
            /\ levels(rsz.built) = DOMAIN rsz.tile_cache
            /\ levels(rsz.grayed) =
                   IF rsz.grayscale THEN levels(rsz.built) \ DOMAIN rsz.db ELSE {}
            /\ \A m \in 1..Len(rsz.calls) : \A k \in 1..Len(rsz.calls[m]) :
                   (\E n \in 1..(m - 1) : rsz.calls[m][k] \in levels(rsz.calls[n]))
                       => k = Len(rsz.calls[m])

C25_Witness ==
    /\ rsz.pc = "generated" /\ DOMAIN rsz.db = {2} /\ rsz.generated_levels = <<0, 1>>
    /\ rsz.grayscale /\ rsz.built = <<2, 1, 0>> /\ rsz.grayed = <<1, 0>>
    /\ rsz.calls = <<(<<0, 1, 2>>), (<<1>>), (<<0>>), (<<1>>)>>

\* C27: every ensure_level_tiles call for a requested level >= 0 on a
\* non-empty set of available levels ends after finitely many invocations:
\* from a level below the minimum the invoked levels go up one by one and end
\* no higher than the minimum, from a level above the maximum they go down
\* one by one and end no lower than the maximum, from a level in a gap they
\* go up one by one and end no higher than the next available level, and no
\* level is invoked twice.
C27_RecursionBounded ==
    rsz.pc \in {"generated", "done", "threw"} =>
        \A n \in 1..Len(rsz.calls) :
            LET v == rsz.calls[n]
                level == v[1]
                available_set == DOMAIN rsz.db
                above == {l \in available_set : l > level}
                below == {l \in available_set : l < level}
                upward == \A k \in 1..Len(v) : v[k] = level + (k - 1)
                downward == \A k \in 1..Len(v) : v[k] = level - (k - 1)
            IN  /\ level >= 0 /\ available_set # {} /\ ~rsz.throws
                /\ \A i \in 1..Len(v) : \A j \in 1..Len(v) : v[i] = v[j] => i = j
                /\ level \in available_set => v = <<level>>
                /\ (level \notin available_set /\ above # {}) =>
                       upward /\ \A l \in above : v[Len(v)] <= l
                /\ (level \notin available_set /\ above = {}) =>
                       downward /\ \A l \in below : v[Len(v)] >= l

C27_Witness ==
    /\ rsz.pc = "generated" /\ DOMAIN rsz.db = {0, 2} /\ rsz.generated_levels = <<1>>
    /\ rsz.calls = <<(<<1, 2>>), (<<1>>)>>

\* C26: in downsample_level and in decrease_zoom the child at XYZ (x, y) is
\* slot (y mod 2) * 2 + (x mod 2) of the parent (x div 2, y div 2), slot i is
\* drawn at ((i mod 2) * w, (i div 2) * h) for its drawn size w by h (slot 0
\* top-left, 1 top-right, 2 bottom-left, 3 bottom-right), the four slots
\* hold four distinct children, and of two children in one column the one
\* with the smaller row is drawn above the other.
C26_SlotPlacement ==
    (samp.pc = "done" /\ samp.fn \in {"downsample_level", "decrease_zoom"}) =>
        /\ DOMAIN samp.layout = DOMAIN samp.result
        /\ \A p \in DOMAIN samp.layout :
               LET slot == samp.layout[p]
                   drawn(c) == IF samp.fn = "decrease_zoom"
                               THEN [width |-> samp.source[c].width \div 2,
                                     height |-> samp.source[c].height \div 2]
                               ELSE samp.source[c]
               IN  /\ DOMAIN slot = 0..3
                   /\ \A i \in 0..3 :
                          /\ slot[i].child \in DOMAIN samp.source
                          /\ i = (slot[i].child[2] % 2) * 2 + (slot[i].child[1] % 2)
                          /\ p = <<slot[i].child[1] \div 2, slot[i].child[2] \div 2>>
                          /\ slot[i].width = drawn(slot[i].child).width
                          /\ slot[i].height = drawn(slot[i].child).height
                          /\ slot[i].offset_x = (i % 2) * slot[i].width
                          /\ slot[i].offset_y = (i \div 2) * slot[i].height
                   /\ slot[0].offset_x = 0 /\ slot[0].offset_y = 0
                   /\ slot[1].offset_x > 0 /\ slot[1].offset_y = 0
                   /\ slot[2].offset_x = 0 /\ slot[2].offset_y > 0
                   /\ slot[3].offset_x > 0 /\ slot[3].offset_y > 0
                   /\ \A i \in 0..3 : \A j \in 0..3 :
                          /\ slot[i].child = slot[j].child => i = j
                          /\ (/\ slot[i].child[1] = slot[j].child[1]
                              /\ slot[i].child[2] < slot[j].child[2])
                                 => slot[i].offset_y < slot[j].offset_y

C26_Witness ==
    /\ samp.pc = "done" /\ samp.fn = "decrease_zoom"
    /\ <<0, 0>> \in DOMAIN samp.layout
    /\ \A c \in (0..1) \X (0..1) : samp.source[c].width = 256
    /\ samp.layout[<<0, 0>>][1] = [child |-> <<1, 0>>, width |-> 128, height |-> 128,
                                   offset_x |-> 128, offset_y |-> 0]
    /\ samp.layout[<<0, 0>>][2] = [child |-> <<0, 1>>, width |-> 128, height |-> 128,
                                   offset_x |-> 0, offset_y |-> 128]

\* C22: toGrayScale is idempotent: a second call in a row leaves exactly
\* the bytes the first one left.
C22_Idempotent ==
    (img.fn = "toGrayScale" /\ img.run >= 2) => img.image.pixels = img.once

\* C23: pixels.size() = width * height * 4 after construction and after
\* every load, loadFromMemory and toGrayScale call, the failed ones
\* included, and toGrayScale changes neither width, height, the length of
\* the buffer nor an alpha byte.
C23_BufferMatchesSize ==
    img.pc = "live" =>
        /\ Len(img.image.pixels) = img.image.width * img.image.height * 4
        /\ img.fn = "toGrayScale" =>
               /\ img.image.width = img.before.width
               /\ img.image.height = img.before.height
               /\ Len(img.image.pixels) = Len(img.before.pixels)
               /\ \A j \in 1..Len(img.image.pixels) :
                      j % 4 = 0 => img.image.pixels[j] = img.before.pixels[j]

\* C21: in the viewer at most one statement is in flight on the shared
\* connection at any time, and a thread that has a statement on it, from
\* prepare to finalize, holds db_mutex.
C21_OneStatementInFlight ==
    /\ Cardinality({t \in ViewWorkers : view.th[t].stmt # "none"}) <= 1
    /\ \A t \in ViewWorkers :
           (view.th[t].stmt # "none" \/ view.th[t].pc \in {"locked", "unlocking"})
               => view.mutex = t

C21_Witness ==
    /\ view.th[1].pc = "row" /\ view.th[1].stmt = "row" /\ view.mutex = 1
    /\ view.th[2].pc = "query" /\ view.th[2].stmt = "none"

\* C30: every access to a download thread's ThreadStats is made while
\* holding statsMutex, so the progress thread never reads a thread's
\* statistics while that thread is writing them.
C30_StatsUnderMutex ==
    /\ \A w \in 1..MaxDownloadThreads :
           dl.worker[w].pc \in {"downloadCount", "downloadSize"} => dl.statsMutex = w
    /\ dl.progress.pc \in {"downloadCount", "downloadSize"} =>
           /\ dl.statsMutex = MaxDownloadThreads + 1
           /\ dl.worker[dl.progress.i].pc \notin {"downloadCount", "downloadSize"}

\* C24: the row mbtiles_creator stores when it imports a file z/x/y.jpg
\* (0 <= y < 2^z, z <= 30) has tile_row = 2^z - 1 - y, and TileIterator and
\* extract with the default pattern present that row as z/x/y again.
C24_AddressRoundTrip ==
    \A i \in 1..Len(crt.files) :
        crt.imported[i] =>
            LET f == crt.files[i]
                jpg == <<"j", "p", "g">>
                pattern == <<"{", "z", "}", "/", "{", "x", "}", "/", "{", "y", "}",
                             ".", "{", "e", "x", "t", "}">>
                r == crt.stored[i]
                t == RowToTile(r, jpg)
            IN  /\ r.zoom_level = f.z /\ r.tile_column = f.x
                /\ r.tile_row = 2 ^ f.z - 1 - f.y
                /\ t.kind = "tile" /\ t.tile.y = f.y
                /\ format_pattern(t.tile.zoom, t.tile.x, t.tile.y, pattern,
                                  t.tile.extension).path
                       = to_string(f.z) \o <<"/">> \o to_string(f.x) \o <<"/">>
                           \o to_string(f.y) \o <<".">> \o jpg

\* C29: processTiles always terminates: once every file has been visited
\* the progress thread leaves its loop and progress_thread.join() returns,
\* also when tiles were skipped.
C29_Terminates == <>(crt.pc = "returned")

====
